---- MODULE Spec2Model ----
(***************************************************************************)
(* Chordora backend: the BeatSwipe swipe/match handler                     *)
(* (_BeatSwipeRecordAction.py), the match listing                          *)
(* (_BeatSwipeGetMatches.py) and the BeatSwipe recommender                 *)
(* (BeatSwipeGetRecommendations.py), modelled over the DynamoDB tables     *)
(* they read and write.                                                    *)
(*                                                                         *)
(*   Spec      the swipe/match state machine: RecordSwipe requests, the    *)
(*             wall clock, and the externally driven match status.         *)
(*   SpecPrefs the preference aggregator and the track scorer as pure      *)
(*             functions of a store drawn from bounded sets.               *)
(*   SpecRec   one recommendation request, step by step, with read         *)
(*             failures and delays of the blocking calls.                  *)
(*   SpecConc  two concurrent RecordSwipe calls, cut at their store        *)
(*             operations.                                                 *)
(*   SpecMatches   the match listing (_BeatSwipeGetMatches.py) over the    *)
(*             match tables right swipes produce.                          *)
(*   SpecScenario  one recommendation run over pools of 5 Trap and 5 Jazz  *)
(*             tracks for an artist who declared Trap and Energetic.       *)
(***************************************************************************)
EXTENDS Integers, Sequences, FiniteSets, TLC

VARIABLES
    users,      \* users table: userId -> profile item
    tracks,     \* tracks table, in scan order: sequence of track items
    swipes,     \* swipes table: swipe_id -> item
    matches,    \* matches table: match_id -> item
    likes,      \* likes table: set of [user_id, track_id] items
    clock,      \* wall clock (RecordSwipe: timestamp unit; recommender: seconds)
    resp,       \* the response returned last
    rec,        \* the recommendation request in progress (SpecPrefs, SpecRec)
    calls       \* the RecordSwipe calls in flight, step by step (SpecConc)

vars == <<users, tracks, swipes, matches, likes, clock, resp, rec, calls>>

\* Python's None; an f-string prints it as "None".
NoVal == "None"

(***************************************************************************)
(* Bounds of the model.                                                    *)
(***************************************************************************)
\* RecordSwipe timestamps range over 0..MaxTime.
MaxTime == 1

(***************************************************************************)
(* Table helpers (DynamoDB item semantics).                                *)
(***************************************************************************)
EmptyTable == [k \in {} |-> NoVal]

\* Put as a conditional write: the item is kept when the key exists.
Put_IfAbsent(tbl, k, item) ==
    [x \in (DOMAIN tbl) \cup {k} |-> IF x \in DOMAIN tbl THEN tbl[x] ELSE item]

\* put_item: upsert of the whole item under its key.
Put(tbl, k, item) == [x \in (DOMAIN tbl) \cup {k} |-> IF x = k THEN item ELSE tbl[x]]

Rows(tbl) == {tbl[k] : k \in DOMAIN tbl}

\* str.lower() on the userType values that occur.
Lower(s) ==
    CASE s = "Rappeur"   -> "rappeur"
      [] s = "RAPPEUR"   -> "rappeur"
      [] s = "Beatmaker" -> "beatmaker"
      [] OTHER           -> s

(***************************************************************************)
(* The stores the swipe/match machine runs on.                             *)
(***************************************************************************)
\* users table. "u0" has a profile without userType; "ghost" has no row.
UsersTable ==
    [u \in {"a1", "a2", "b1", "b2", "u0"} |->
        CASE u = "a1" -> [userId |-> "a1", userType |-> "Rappeur",
                          musicGenres |-> <<>>, musicalMood |-> NoVal]
          [] u = "a2" -> [userId |-> "a2", userType |-> "RAPPEUR",
                          musicGenres |-> <<>>, musicalMood |-> NoVal]
          [] u = "b1" -> [userId |-> "b1", userType |-> "Beatmaker",
                          musicGenres |-> <<>>, musicalMood |-> NoVal]
          [] u = "b2" -> [userId |-> "b2", userType |-> "loopmaker",
                          musicGenres |-> <<>>, musicalMood |-> NoVal]
          [] OTHER    -> [userId |-> u, userType |-> NoVal,
                          musicGenres |-> <<>>, musicalMood |-> NoVal]]

\* One track item. An absent genre, mood or cover is NoVal and an absent bpm
\* is 0 (both falsy for track.get('bpm')); created_at is kept as has_created_at
\* and the track's age in days at request time.
Track(id, owner, private, genre, mood, bpm, lk, pl, has_created, age, cover) ==
    [track_id |-> id, user_id |-> owner, isPrivate |-> private, genre |-> genre,
     mood |-> mood, bpm |-> bpm, likes |-> lk, plays |-> pl,
     has_created_at |-> has_created, age_days |-> age, cover_image |-> cover]

\* The catalogue of tracks, in the table's scan order: a private track, a
\* track of the artist a1, and three public tracks of beatmakers.
CatalogueSeq ==
    << Track("t3", "b2", TRUE,  "Trap", "Energetic", 140, 3, 10, TRUE, 2, NoVal),
       Track("t4", "a1", FALSE, "Trap", "Dark", 150, 0, 0, TRUE, 20, NoVal),
       Track("t1", "b1", FALSE, "Trap", "Energetic", 140, 2, 40, TRUE, 3, "https://c/1"),
       Track("t2", "b1", FALSE, "Jazz", "Chill", 92, 400, 9000, TRUE, 400, NoVal),
       Track("t5", "b2", FALSE, NoVal, NoVal, 0, 0, 0, FALSE, 0, "bad") >>

TrackIdsOf(seq) == {seq[i].track_id : i \in 1..Len(seq)}

\* tracks_table.get_item(Key={'track_id': id}): 'Item' in response
HasTrack(id) == \E i \in 1..Len(tracks) : tracks[i].track_id = id

TrackItem(id) == tracks[CHOOSE i \in 1..Len(tracks) : tracks[i].track_id = id]

(***************************************************************************)
(* RecordSwipe: lambda_handler of _BeatSwipeRecordAction.py                *)
(***************************************************************************)
\* The requests: [auth, user, trackId, action]; "" and NoVal are falsy.
\* The artist sends every combination; the other callers (a beatmaker, a
\* profile without userType, a user without profile) a few.
SwipeTrackIds == {"t1", "t4", "t9", NoVal}
SwipeActions == {"right", "left", "down", "up", ""}

SwipeRequests ==
    [auth : {TRUE}, user : {"a1"}, trackId : SwipeTrackIds, action : SwipeActions]
    \cup [auth : {TRUE}, user : {"b1", "u0", "ghost"}, trackId : {"t1", "t9"},
          action : {"right", "up"}]
    \cup [auth : {FALSE}, user : {"a1"}, trackId : {"t1"}, action : {"right"}]

Falsy(v) == v = NoVal \/ v = ""

Response(code, msg) == [statusCode |-> code, message |-> msg]

NoResponse == Response(0, "")

\* ValidateSwipe without the role check of lines 109-115.
ValidateSwipe_NoRoleCheck(req) ==
    IF ~req.auth THEN Response(401, "Unauthorized: Missing authentication")
    ELSE IF Falsy(req.trackId) \/ Falsy(req.action)
        THEN Response(400, "Missing trackId or action")
    ELSE IF req.action \notin {"right", "left", "down"}
        THEN Response(400, "Invalid action")
    ELSE IF req.user \notin DOMAIN users
        THEN Response(404, "User profile not found")
    ELSE IF ~HasTrack(req.trackId)
        THEN Response(404, "Track not found")
    ELSE Response(200, "valid")

\* Everything the handler checks before its first write; statusCode 200
\* stands for "validation passed".
ValidateSwipe(req) ==
    IF ~req.auth THEN Response(401, "Unauthorized: Missing authentication")
    ELSE IF Falsy(req.trackId) \/ Falsy(req.action)
        THEN Response(400, "Missing trackId or action")
    ELSE IF req.action \notin {"right", "left", "down"}
        THEN Response(400, "Invalid action")
    ELSE IF req.user \notin DOMAIN users
        THEN Response(404, "User profile not found")
    ELSE IF Lower(IF users[req.user].userType = NoVal THEN ""
                  ELSE users[req.user].userType) # "rappeur"
        THEN Response(400, "BeatSwipe is only available for artists")
    ELSE IF ~HasTrack(req.trackId)
        THEN Response(404, "Track not found")
    ELSE Response(200, "valid")

\* SwipeId made unique per call by appending the timestamp.
SwipeId_PerCall(user_id, track_id) ==
    user_id \o "#" \o track_id \o "#" \o ToString(clock)

SwipeId(user_id, track_id) == user_id \o "#" \o track_id

\* MatchId made unique per call by appending the timestamp.
MatchId_PerCall(user_id, beatmaker_id, track_id) ==
    user_id \o "#" \o beatmaker_id \o "#" \o track_id \o "#" \o ToString(clock)

MatchId(user_id, beatmaker_id, track_id) ==
    user_id \o "#" \o beatmaker_id \o "#" \o track_id

SwipeItem(user_id, track_id, action, timestamp) ==
    [swipe_id |-> SwipeId(user_id, track_id), user_id |-> user_id,
     track_id |-> track_id, action |-> action, timestamp |-> timestamp]

\* MatchItem recording the caller as the beatmaker.
MatchItem_CallerAsBeatmaker(user_id, beatmaker_id, track_id, timestamp) ==
    [match_id |-> MatchId(user_id, beatmaker_id, track_id), artist_id |-> user_id,
     beatmaker_id |-> user_id, track_id |-> track_id,
     timestamp |-> timestamp, status |-> "new"]

MatchItem(user_id, beatmaker_id, track_id, timestamp) ==
    [match_id |-> MatchId(user_id, beatmaker_id, track_id), artist_id |-> user_id,
     beatmaker_id |-> beatmaker_id, track_id |-> track_id,
     timestamp |-> timestamp, status |-> "new"]

\* swipes_table.put_item(Item={...}): unconditional upsert.
SwipeWrite(tbl, user_id, track_id, action, timestamp) ==
    Put(tbl, SwipeId(user_id, track_id), SwipeItem(user_id, track_id, action, timestamp))

\* MatchWrite without the test of the action.
MatchWrite_AnyAction(tbl, user_id, beatmaker_id, track_id, action, timestamp) ==
    Put(tbl, MatchId(user_id, beatmaker_id, track_id),
        MatchItem(user_id, beatmaker_id, track_id, timestamp))

\* if action == 'right': matches_table.put_item(Item={..., 'status': 'new'}),
\* unconditional as well.
MatchWrite(tbl, user_id, beatmaker_id, track_id, action, timestamp) ==
    IF action = "right"
    THEN Put(tbl, MatchId(user_id, beatmaker_id, track_id),
             MatchItem(user_id, beatmaker_id, track_id, timestamp))
    ELSE tbl

RecordSwipe(req) ==
    LET v == ValidateSwipe(req) IN
    /\ IF v.statusCode # 200
       THEN /\ resp' = v
            /\ UNCHANGED <<swipes, matches>>
       ELSE LET beatmaker_id == TrackItem(req.trackId).user_id IN
            /\ swipes' = SwipeWrite(swipes, req.user, req.trackId, req.action, clock)
            /\ matches' = MatchWrite(matches, req.user, beatmaker_id, req.trackId,
                                     req.action, clock)
            /\ resp' = IF req.action = "right"
                       THEN Response(200, "Match created successfully")
                       ELSE Response(200, "Swipe recorded successfully")
    /\ UNCHANGED <<users, tracks, likes, clock, rec, calls>>

\* datetime.now() moves on between requests.
Tick ==
    /\ clock < MaxTime
    /\ clock' = clock + 1
    /\ UNCHANGED <<users, tracks, swipes, matches, likes, resp, rec, calls>>

\* The match status sub-lifecycle new -> viewed -> responded | archived is
\* driven from outside this core.
StatusSuccessors(s) ==
    CASE s = "new"    -> {"viewed"}
      [] s = "viewed" -> {"responded", "archived"}
      [] OTHER        -> {}

ExternalStatusChange ==
    /\ \E m \in DOMAIN matches : \E s \in StatusSuccessors(matches[m].status) :
          matches' = [matches EXCEPT ![m].status = s]
    /\ UNCHANGED <<users, tracks, swipes, likes, clock, resp, rec, calls>>

RecIdle == [pc |-> "idle"]

\* No RecordSwipe call is in flight.
NoCalls == <<>>

Init ==
    /\ users = UsersTable
    /\ tracks = CatalogueSeq
    /\ swipes = EmptyTable
    /\ matches = EmptyTable
    /\ likes = {}
    /\ clock = 0
    /\ resp = NoResponse
    /\ rec = RecIdle
    /\ calls = NoCalls

DoRecordSwipe == \E req \in SwipeRequests : RecordSwipe(req)

Next ==
    \/ DoRecordSwipe
    \/ Tick
    \/ ExternalStatusChange

Spec == Init /\ [][Next]_vars

(***************************************************************************)
(* Properties of the swipe/match state machine (checked under Spec).       *)
(***************************************************************************)
MatchRowsOf(tbl, user_id, track_id) ==
    {m \in Rows(tbl) : m.artist_id = user_id /\ m.track_id = track_id}

\* C1: for an artist U and an existing track T that already has a match row
\* (whatever its status), a further RecordSwipe(U, T, right) leaves the match
\* table as it is: the row keeps its status and its timestamp.
C1_RelikeKeepsMatchRow ==
    [][\A req \in SwipeRequests :
          ( /\ req.auth /\ req.action = "right"
            /\ req.user \in DOMAIN users /\ HasTrack(req.trackId)
            /\ MatchRowsOf(matches, req.user, req.trackId) # {}
            /\ RecordSwipe(req) )
          => matches' = matches]_vars

\* C2: the match table holds at most one row per (artist_id, track_id) pair.
C2_OneMatchPerPair ==
    \A m1 \in Rows(matches) : \A m2 \in Rows(matches) :
        (m1.artist_id = m2.artist_id /\ m1.track_id = m2.track_id) => m1 = m2

\* C2 witness: both tracks are matched and one of the matched pairs has been
\* swiped again since (its swipe row is no longer a right swipe).
C2_Witness ==
    /\ Cardinality(Rows(matches)) = 2
    /\ \E m \in Rows(matches) : \E s \in Rows(swipes) :
          s.user_id = m.artist_id /\ s.track_id = m.track_id /\ s.action # "right"
    /\ \E m \in Rows(matches) : m.timestamp = 1 /\ m.status = "new"

\* C3: every match row (artist_id, beatmaker_id, track_id) has a swipe row for
\* (artist_id, track_id) whose current action is right.
C3_MatchHasRightSwipe ==
    \A m \in Rows(matches) : \E s \in Rows(swipes) :
        s.user_id = m.artist_id /\ s.track_id = m.track_id /\ s.action = "right"

\* The requests C4 is about, in the claim's terms.
InvalidSwipe(req) ==
    \/ Falsy(req.trackId)
    \/ Falsy(req.action)
    \/ req.action \notin {"right", "left", "down"}
    \/ req.user \notin DOMAIN users
    \/ users[req.user].userType \notin {"rappeur", "Rappeur", "RAPPEUR"}
    \/ req.trackId \notin TrackIdsOf(tracks)

\* C4: an authenticated RecordSwipe request with a missing trackId or action,
\* an action outside {right, left, down}, an unknown user profile, a caller
\* who is not an artist, or a non-existent track is answered with 400 or 404
\* and leaves the swipe table and the match table unchanged.
C4_RejectedBeforeWrite ==
    [][\A req \in SwipeRequests :
          (req.auth /\ InvalidSwipe(req) /\ RecordSwipe(req))
          => ( /\ resp'.statusCode \in {400, 404}
               /\ swipes' = swipes
               /\ matches' = matches )]_vars

\* C4 witness: a beatmaker's swipe has just been rejected while the tables
\* already hold rows.
C4_Witness ==
    /\ resp = Response(400, "BeatSwipe is only available for artists")
    /\ swipes # EmptyTable
    /\ matches # EmptyTable

SwipeRowsOf(tbl, user_id, track_id) ==
    {sw \in Rows(tbl) : sw.user_id = user_id /\ sw.track_id = track_id}

\* The request passes every check of the handler and reaches the writes.
Accepted(req) == ValidateSwipe(req).statusCode = 200

\* C11: a successful RecordSwipe(U, T, right) on a track T with no match row
\* for (U, T) adds exactly one match row, under the key U#owner(T)#T, with
\* artist_id U, beatmaker_id owner(T), track_id T and status new.
C11_RightSwipeCreatesMatch ==
    [][\A req \in SwipeRequests :
          ( /\ Accepted(req) /\ req.action = "right"
            /\ MatchRowsOf(matches, req.user, req.trackId) = {}
            /\ RecordSwipe(req) )
          => LET owner == TrackItem(req.trackId).user_id
                 key == req.user \o "#" \o owner \o "#" \o req.trackId
             IN /\ DOMAIN matches' = (DOMAIN matches) \cup {key}
                /\ key \notin DOMAIN matches
                /\ matches'[key].artist_id = req.user
                /\ matches'[key].beatmaker_id = owner
                /\ matches'[key].track_id = req.trackId
                /\ matches'[key].status = "new"
                /\ resp'.statusCode = 200]_vars

\* C11 witness: the first right swipe of a1 on t1 (owned by b1) has been
\* answered and its match row is the only one.
C11_Witness ==
    /\ resp = Response(200, "Match created successfully")
    /\ DOMAIN matches = {"a1#b1#t1"}
    /\ matches["a1#b1#t1"].beatmaker_id = "b1"
    /\ matches["a1#b1#t1"].status = "new"

\* C12: a successful RecordSwipe(U, T, a) leaves exactly one swipe row for
\* (U, T), whose action is a, and leaves the rows of the other pairs as they
\* are; no other step changes the swipe table.
C12_SwipeOverwrites ==
    [][ /\ \A req \in SwipeRequests :
              (Accepted(req) /\ RecordSwipe(req))
              => /\ Cardinality(SwipeRowsOf(swipes', req.user, req.trackId)) = 1
                 /\ \A sw \in SwipeRowsOf(swipes', req.user, req.trackId) :
                        sw.action = req.action
                 /\ \A k \in DOMAIN swipes :
                        (swipes[k].user_id # req.user \/ swipes[k].track_id # req.trackId)
                        => (k \in DOMAIN swipes' /\ swipes'[k] = swipes[k])
        /\ (\A req \in SwipeRequests : ~(Accepted(req) /\ RecordSwipe(req)))
              => swipes' = swipes ]_vars

\* C12 witness: a1 swiped t1 right at time 0 (the match row remains) and
\* down at time 1; the pair has the single row of the later swipe.
C12_Witness ==
    /\ "a1#b1#t1" \in DOMAIN matches
    /\ matches["a1#b1#t1"].timestamp = 0
    /\ SwipeRowsOf(swipes, "a1", "t1") = {SwipeItem("a1", "t1", "down", 1)}
    /\ Cardinality(Rows(swipes)) = 2

\* C14: once the swipe row of (U, T) has action left, a later RecordSwipe for
\* the pair leaves the action left, and no match row for (U, T) exists
\* afterwards.
C14_LeftIsTerminal ==
    [][\A req \in SwipeRequests :
          ( /\ Accepted(req)
            /\ \E sw \in SwipeRowsOf(swipes, req.user, req.trackId) : sw.action = "left"
            /\ RecordSwipe(req) )
          => /\ \A sw \in SwipeRowsOf(swipes', req.user, req.trackId) : sw.action = "left"
             /\ MatchRowsOf(matches', req.user, req.trackId) = {}]_vars

\* C15: a successful RecordSwipe with action left or down writes the swipe
\* row of (user, track) and nothing else: the other swipe rows, the match
\* table, the users, tracks and likes tables are unchanged.
C15_LeftDownWritesSwipeOnly ==
    [][\A req \in SwipeRequests :
          ( /\ Accepted(req) /\ req.action \in {"left", "down"}
            /\ RecordSwipe(req) )
          => LET key == req.user \o "#" \o req.trackId
             IN /\ matches' = matches
                /\ users' = users /\ tracks' = tracks /\ likes' = likes
                /\ DOMAIN swipes' = (DOMAIN swipes) \cup {key}
                /\ swipes'[key] = [swipe_id |-> key, user_id |-> req.user,
                                    track_id |-> req.trackId, action |-> req.action,
                                    timestamp |-> clock]
                /\ \A k \in DOMAIN swipes : k # key => swipes'[k] = swipes[k]]_vars

\* C15 witness: a down swipe has been answered as a plain swipe while the
\* match table holds a row.
C15_Witness ==
    /\ resp = Response(200, "Swipe recorded successfully")
    /\ matches # EmptyTable
    /\ \E sw \in Rows(swipes) : sw.action = "down" /\ sw.timestamp = 1

(***************************************************************************)
(* SpecConc: two RecordSwipe calls of the artist run concurrently (two     *)
(* Lambda invocations).  Each call is the handler cut at its store         *)
(* operations: the reads of the profile and the track, the reading of the  *)
(* clock, the put of the swipe row, the put of the match row.              *)
(***************************************************************************)
Procs == {1, 2}

ConcRequests ==
    [auth : {TRUE}, user : {"a1"}, trackId : {"t1", "t4", "t9"}, action : {"right", "left"}]

\* A call before its first step.
CallStart(req) ==
    [pc |-> "start", req |-> req, beatmaker_id |-> NoVal, timestamp |-> 0]

\* The tables a pair of calls can start from: empty, or holding the rows of
\* an earlier right swipe of t1 whose match has been viewed since.
ConcStores ==
    { [swipes |-> EmptyTable, matches |-> EmptyTable],
      [swipes |-> SwipeWrite(EmptyTable, "a1", "t1", "right", 0),
       matches |-> [MatchWrite(EmptyTable, "a1", "b1", "t1", "right", 0)
                       EXCEPT !["a1#b1#t1"].status = "viewed"]] }

InitConc ==
    /\ users = UsersTable
    /\ tracks = CatalogueSeq
    /\ \E st \in ConcStores : swipes = st.swipes /\ matches = st.matches
    /\ likes = {}
    /\ clock = 0
    /\ resp = NoResponse
    /\ rec = RecIdle
    /\ calls \in [Procs -> {CallStart(req) : req \in ConcRequests}]

\* Lines 67-127: the checks, with the reads of the profile and of the track.
ConcValidate(p) ==
    /\ calls[p].pc = "start"
    /\ LET v == ValidateSwipe(calls[p].req) IN
       IF v.statusCode # 200
       THEN /\ calls' = [calls EXCEPT ![p].pc = "done"]
            /\ resp' = v
       ELSE /\ calls' = [calls EXCEPT ![p].pc = "validated",
                             ![p].beatmaker_id = TrackItem(calls[p].req.trackId).user_id]
            /\ resp' = resp
    /\ UNCHANGED <<users, tracks, swipes, matches, likes, clock, rec>>

\* Line 130: timestamp = int(datetime.datetime.now().timestamp())
ConcStamp(p) ==
    /\ calls[p].pc = "validated"
    /\ calls' = [calls EXCEPT ![p].pc = "stamped", ![p].timestamp = clock]
    /\ UNCHANGED <<users, tracks, swipes, matches, likes, clock, resp, rec>>

\* Lines 133-144: the put of the swipe row; lines 184-196 for left and down.
ConcPutSwipe(p) ==
    LET c == calls[p] IN
    /\ c.pc = "stamped"
    /\ swipes' = SwipeWrite(swipes, c.req.user, c.req.trackId, c.req.action, c.timestamp)
    /\ IF c.req.action = "right"
       THEN /\ calls' = [calls EXCEPT ![p].pc = "swiped"]
            /\ resp' = resp
       ELSE /\ calls' = [calls EXCEPT ![p].pc = "done"]
            /\ resp' = Response(200, "Swipe recorded successfully")
    /\ UNCHANGED <<users, tracks, matches, likes, clock, rec>>

\* Lines 147-175: the put of the match row and the answer.
ConcPutMatch(p) ==
    LET c == calls[p] IN
    /\ c.pc = "swiped"
    /\ matches' = MatchWrite(matches, c.req.user, c.beatmaker_id, c.req.trackId,
                             c.req.action, c.timestamp)
    /\ calls' = [calls EXCEPT ![p].pc = "done"]
    /\ resp' = Response(200, "Match created successfully")
    /\ UNCHANGED <<users, tracks, swipes, likes, clock, rec>>

\* The clock moves on while the calls run.
ConcTick ==
    /\ clock < MaxTime
    /\ clock' = clock + 1
    /\ UNCHANGED <<users, tracks, swipes, matches, likes, resp, rec, calls>>

NextConc ==
    \/ \E p \in Procs : ConcValidate(p)
    \/ \E p \in Procs : ConcStamp(p)
    \/ \E p \in Procs : ConcPutSwipe(p)
    \/ \E p \in Procs : ConcPutMatch(p)
    \/ ConcTick

SpecConc == InitConc /\ [][NextConc]_vars

\* Both calls are RecordSwipe(user_id, track_id, right).
BothRight(user_id, track_id) ==
    \A p \in Procs : calls[p].req = [auth |-> TRUE, user |-> user_id,
                                     trackId |-> track_id, action |-> "right"]

AllDone == \A p \in Procs : calls[p].pc = "done"

\* C13: while two concurrent RecordSwipe(U, T, right) calls run, the pair
\* (U, T) never has more than one swipe row or more than one match row, a
\* swipe row of the pair has action right and a match row of the pair comes
\* with a right swipe row; when both calls have returned there is exactly one
\* swipe row, with action right, and exactly one match row, under the key
\* U#owner(T)#T, with status new.
C13_ConcurrentRightSwipes ==
    \A t \in {"t1", "t4"} :
        BothRight("a1", t) =>
            LET srows == SwipeRowsOf(swipes, "a1", t)
                mrows == MatchRowsOf(matches, "a1", t)
                key == "a1" \o "#" \o TrackItem(t).user_id \o "#" \o t
            IN /\ Cardinality(srows) <= 1
               /\ Cardinality(mrows) <= 1
               /\ \A sw \in srows : sw.action = "right"
               /\ mrows # {} => srows # {}
               /\ AllDone =>
                     /\ Cardinality(srows) = 1
                     /\ Cardinality(mrows) = 1
                     /\ key \in DOMAIN matches
                     /\ matches[key].status = "new"
                     /\ matches[key].beatmaker_id = TrackItem(t).user_id

\* C13 witness: both right swipes of t1 have returned after interleaving
\* their puts: the swipe row carries the timestamp of one call and the match
\* row the timestamp of the other.
C13_Witness ==
    /\ BothRight("a1", "t1")
    /\ AllDone
    /\ calls[1].timestamp # calls[2].timestamp
    /\ \E sw \in SwipeRowsOf(swipes, "a1", "t1") :
       \E m \in MatchRowsOf(matches, "a1", "t1") : sw.timestamp # m.timestamp

(***************************************************************************)
(* Preference aggregator: ImprovedRecommender.get_user_* and               *)
(* analyze_user_preferences of BeatSwipeGetRecommendations.py.             *)
(*                                                                         *)
(* Every store read may fail.  A set F of failing reads names each one as  *)
(* <<call site, key>> (key "" for a query, the track id for a get_item).   *)
(* Scores are exact rationals [num, den].                                  *)
(***************************************************************************)
\* Swipe timestamps are days; the request runs on day NowDay.
NowDay == 100

DaysLimit == 30
SampleCap == 50
BeatmakerCap == 100

Failed(F, site, key) == <<site, key>> \in F

Range(seq) == {seq[i] : i \in 1..Len(seq)}

MaxOf(S) == CHOOSE x \in S : \A y \in S : y <= x

MinOf(S) == CHOOSE x \in S : \A y \in S : x <= y

\* list(set(ids))[:n]: any n of the ids when there are more than n.
FirstN(ids, n) ==
    IF Cardinality(ids) <= n THEN ids
    ELSE CHOOSE S \in SUBSET ids : Cardinality(S) = n

\* get_user_swipes: the user's swipe rows, filtered by action (NoVal: any)
\* and by age (days_limit 0: any); [] when the query raises.
get_user_swipes(user_id, action, days_limit, failed) ==
    IF failed THEN {}
    ELSE {sw \in Rows(swipes) :
            /\ sw.user_id = user_id
            /\ (action = NoVal \/ sw.action = action)
            /\ (days_limit = 0 \/ sw.timestamp >= NowDay - days_limit)}

TrackIdsOfRows(rows) == {r.track_id : r \in rows}

\* get_user_likes: the ids of the tracks the user liked; [] when the query raises.
get_user_likes(user_id, failed) ==
    IF failed THEN {}
    ELSE {l.track_id : l \in {x \in likes : x.user_id = user_id}}

\* The per-track get_item loop shared by the get_user_* functions: the items
\* of the ids whose read succeeds and finds an item.
GetItems(ids, site, F) ==
    {TrackItem(t) : t \in {x \in ids : ~Failed(F, site, x) /\ HasTrack(x)}}

\* Normalize dividing by the smallest value instead of the largest.
Normalize_ByMin(scores) ==
    [k \in DOMAIN scores |->
        [num |-> 10 * scores[k], den |-> MinOf({scores[j] : j \in DOMAIN scores})]]

RECURSIVE SumOver(_, _)
SumOver(scores, keys) ==
    IF keys = {} THEN 0
    ELSE LET k == CHOOSE x \in keys : TRUE IN scores[k] + SumOver(scores, keys \ {k})

\* Normalize dividing by the sum of the values instead of the largest.
Normalize_BySum(scores) ==
    [k \in DOMAIN scores |->
        [num |-> 10 * scores[k], den |-> SumOver(scores, DOMAIN scores)]]

\* max_score = max(values); value = (value / max_score) * 10
Normalize(scores) ==
    [k \in DOMAIN scores |->
        [num |-> 10 * scores[k], den |-> MaxOf({scores[j] : j \in DOMAIN scores})]]

DefaultGenres == {"Trap", "Hip Hop", "Drill", "RnB", "Boom Bap"}

Occurrences(seq, v) == Cardinality({i \in 1..Len(seq) : seq[i] = v})

\* Raw genre weights in halves: right swipe 2 -> 4, like 1.5 -> 3,
\* declared 3 -> 6, default 1 -> 2.
get_user_genre_preferences(user_id, user_profile, F) ==
    LET right_swipes == get_user_swipes(user_id, "right", DaysLimit,
                                        Failed(F, "swipes_genre", ""))
        swipe_items == GetItems(FirstN(TrackIdsOfRows(right_swipes), SampleCap),
                                "get_genre_swipe", F)
        liked_ids   == get_user_likes(user_id, Failed(F, "likes_genre", ""))
        like_items  == GetItems(FirstN(liked_ids, SampleCap), "get_genre_like", F)
        explicit    == user_profile.musicGenres
        raw(g) == 4 * Cardinality({i \in swipe_items : i.genre = g})
                  + 3 * Cardinality({i \in like_items : i.genre = g})
                  + 6 * Occurrences(explicit, g)
        keys == {g \in {i.genre : i \in swipe_items \cup like_items} \cup Range(explicit) :
                    ~Falsy(g)}
        genre_scores == IF keys = {} THEN [g \in DefaultGenres |-> 2]
                        ELSE [g \in keys |-> raw(g)]
    IN Normalize(genre_scores)

\* Raw mood weights: right swipe 2, declared mood 5; no default.
get_user_mood_preferences(user_id, user_profile, F) ==
    LET right_swipes == get_user_swipes(user_id, "right", DaysLimit,
                                        Failed(F, "swipes_mood", ""))
        items == GetItems(FirstN(TrackIdsOfRows(right_swipes), SampleCap), "get_mood", F)
        user_mood == user_profile.musicalMood
        raw(m) == 2 * Cardinality({i \in items : i.mood = m})
                  + (IF m = user_mood THEN 5 ELSE 0)
        keys == {m \in {i.mood : i \in items} \cup {user_mood} : ~Falsy(m)}
    IN Normalize([m \in keys |-> raw(m)])

RECURSIVE SumBpm(_)
SumBpm(items) ==
    IF items = {} THEN 0
    ELSE LET i == CHOOSE x \in items : TRUE IN i.bpm + SumBpm(items \ {i})

\* avg_bpm is the rational avg_sum / avg_n; defined is FALSE where the code
\* returns None for avg, min and max.
BpmPrefs(sum, n, lo, hi, defined, has) ==
    [avg_sum |-> sum, avg_n |-> n, min_bpm |-> lo, max_bpm |-> hi,
     defined |-> defined, has_preference |-> has]

default_bpm_prefs == BpmPrefs(125, 1, 90, 160, TRUE, FALSE)

get_user_bpm_preferences(user_id, F) ==
    LET right_swipes == get_user_swipes(user_id, "right", DaysLimit,
                                        Failed(F, "swipes_bpm", ""))
        track_ids == TrackIdsOfRows(right_swipes)
        items == GetItems(FirstN(track_ids, SampleCap), "get_bpm", F)
        valid == {i \in items : i.bpm # 0 /\ 40 <= i.bpm /\ i.bpm <= 200}
        bpms  == {i.bpm : i \in valid}
    IN IF track_ids = {} THEN default_bpm_prefs
       ELSE IF valid = {} THEN BpmPrefs(0, 0, 0, 0, FALSE, FALSE)
       ELSE BpmPrefs(SumBpm(valid), Cardinality(valid), MinOf(bpms), MaxOf(bpms),
                     TRUE, TRUE)

\* A track both swiped right and liked counts 3, swiped right only 2, liked only 1.
get_preferred_beatmakers(user_id, F) ==
    LET right_swipes == get_user_swipes(user_id, "right", 0, Failed(F, "swipes_bm", ""))
        swipe_track_ids == TrackIdsOfRows(right_swipes)
        liked_track_ids == get_user_likes(user_id, Failed(F, "likes_bm", ""))
        items == {i \in GetItems(FirstN(swipe_track_ids \cup liked_track_ids, BeatmakerCap),
                                 "get_bm", F) : i.user_id # NoVal}
        score(i) == IF i.track_id \in swipe_track_ids /\ i.track_id \in liked_track_ids
                    THEN 3
                    ELSE IF i.track_id \in swipe_track_ids THEN 2 ELSE 1
        raw(b) == 3 * Cardinality({i \in items : i.user_id = b /\ score(i) = 3})
                  + 2 * Cardinality({i \in items : i.user_id = b /\ score(i) = 2})
                  + Cardinality({i \in items : i.user_id = b /\ score(i) = 1})
    IN Normalize([b \in {i.user_id : i \in items} |-> raw(b)])

analyze_user_preferences(user_id, user_profile, F) ==
    [genre_preferences |-> get_user_genre_preferences(user_id, user_profile, F),
     mood_preferences |-> get_user_mood_preferences(user_id, user_profile, F),
     bpm_preferences |-> get_user_bpm_preferences(user_id, F),
     beatmaker_preferences |-> get_preferred_beatmakers(user_id, F),
     swiped_track_ids |->
        TrackIdsOfRows(get_user_swipes(user_id, NoVal, 0, Failed(F, "swipes_all", ""))),
     user_id |-> user_id]

(***************************************************************************)
(* Track scorer: ImprovedRecommender.score_track.                          *)
(***************************************************************************)
\* The weights, in hundredths.
GenreWeight == 35
MoodWeight == 25
BpmWeight == 15
BeatmakerWeight == 15
PopularityWeight == 5
NoveltyWeight == 5

Rat(n, d) == [num |-> n, den |-> d]

\* The denominator the entries of a normalized map share (1 for an empty map).
MapDen(m) == IF DOMAIN m = {} THEN 1 ELSE m[CHOOSE k \in DOMAIN m : TRUE].den

\* Every score of one request is expressed over this denominator:
\* hundredths (weights) x 200 (popularity) x the three map denominators.
ScoreDen(preferences) ==
    20000 * MapDen(preferences.genre_preferences)
          * MapDen(preferences.mood_preferences)
          * MapDen(preferences.beatmaker_preferences)

\* score += value * (w / 100), as a numerator over ScoreDen.
Term(w, value, preferences) ==
    w * value.num * ((ScoreDen(preferences) \div 100) \div value.den)

Abs(x) == IF x < 0 THEN -x ELSE x

\* BpmScore with the thresholds exclusive.
BpmScore_Exclusive(track_bpm, bpm_pref) ==
    LET n == bpm_pref.avg_n
        diff_n == Abs(track_bpm * n - bpm_pref.avg_sum)
    IN IF diff_n < 5 * n THEN 10
       ELSE IF diff_n < 10 * n THEN 8
       ELSE IF diff_n < 20 * n THEN 5
       ELSE IF diff_n < 30 * n THEN 3
       ELSE 1

\* diff = abs(track_bpm - avg_bpm), compared without dividing.
BpmScore(track_bpm, bpm_pref) ==
    LET n == bpm_pref.avg_n
        diff_n == Abs(track_bpm * n - bpm_pref.avg_sum)
    IN IF diff_n <= 5 * n THEN 10
       ELSE IF diff_n <= 10 * n THEN 8
       ELSE IF diff_n <= 20 * n THEN 5
       ELSE IF diff_n <= 30 * n THEN 3
       ELSE 1

\* PopularityScore without the cap min(10, .).
PopularityScore_Uncapped(track) ==
    Rat(7 * track.likes + 3 * track.plays, 200)

\* min(10, (likes * 0.7 + plays * 0.3) / 20), in two-hundredths.
PopularityScore(track) ==
    LET weighted == 7 * track.likes + 3 * track.plays
    IN Rat(IF weighted < 2000 THEN weighted ELSE 2000, 200)

NoveltyScore(track) ==
    IF ~track.has_created_at THEN 5
    ELSE IF track.age_days <= 7 THEN 10
    ELSE IF track.age_days <= 30 THEN 7
    ELSE IF track.age_days <= 90 THEN 5
    ELSE 3

\* The exclusion sentinel -1.
Sentinel(preferences) == Rat(0 - ScoreDen(preferences), ScoreDen(preferences))

\* Excluded without the check of the already swiped tracks (lines 525-526).
Excluded_NoSwipeCheck(track, preferences) ==
    \/ track.user_id = preferences.user_id
    \/ track.isPrivate

Excluded(track, preferences) ==
    \/ track.track_id \in preferences.swiped_track_ids
    \/ track.user_id = preferences.user_id
    \/ track.isPrivate

score_track(track, preferences) ==
    IF Excluded(track, preferences) THEN Sentinel(preferences)
    ELSE
    LET gp == preferences.genre_preferences
        mp == preferences.mood_preferences
        bp == preferences.bpm_preferences
        cp == preferences.beatmaker_preferences
        genre == IF ~Falsy(track.genre) /\ track.genre \in DOMAIN gp
                 THEN Term(GenreWeight, gp[track.genre], preferences) ELSE 0
        mood  == IF ~Falsy(track.mood) /\ track.mood \in DOMAIN mp
                 THEN Term(MoodWeight, mp[track.mood], preferences) ELSE 0
        bpm   == IF track.bpm # 0 /\ bp.has_preference
                 THEN Term(BpmWeight, Rat(BpmScore(track.bpm, bp), 1), preferences)
                 ELSE 0
        maker == IF ~Falsy(track.user_id) /\ track.user_id \in DOMAIN cp
                 THEN Term(BeatmakerWeight, cp[track.user_id], preferences) ELSE 0
        popularity == Term(PopularityWeight, PopularityScore(track), preferences)
        novelty == Term(NoveltyWeight, Rat(NoveltyScore(track), 1), preferences)
    IN Rat(genre + mood + bpm + maker + popularity + novelty, ScoreDen(preferences))

(***************************************************************************)
(* The stores a recommendation request of the artist a1 runs on.           *)
(***************************************************************************)
Artist == "a1"

EmptyProfile == [userId |-> NoVal, userType |-> NoVal, musicGenres |-> <<>>,
                 musicalMood |-> NoVal]

Profile(genres, mood) ==
    [userId |-> Artist, userType |-> "Rappeur", musicGenres |-> genres,
     musicalMood |-> mood]

\* No declared preference, one genre and a mood, two genres and no mood.
ProfileChoices ==
    {Profile(<<>>, NoVal), Profile(<<"Trap">>, "Energetic"),
     Profile(<<"Jazz", "Trap">>, NoVal)}

\* The artist's swipe history: per track none, a swipe of yesterday, or a
\* right swipe older than the 30-day window.
HistoryOptions ==
    [t1 : {"none", "right", "left"}, t2 : {"none", "right", "old_right"},
     t5 : {"none", "right"}]

HistoryRow(track_id, option) ==
    IF option = "old_right"
    THEN SwipeItem(Artist, track_id, "right", NowDay - DaysLimit - 15)
    ELSE SwipeItem(Artist, track_id, option, NowDay - 1)

SwipeHistory(h) ==
    LET ids == {t \in {"t1", "t2", "t5"} :
                   \/ t = "t1" /\ h.t1 # "none"
                   \/ t = "t2" /\ h.t2 # "none"
                   \/ t = "t5" /\ h.t5 # "none"}
        opt(t) == IF t = "t1" THEN h.t1 ELSE IF t = "t2" THEN h.t2 ELSE h.t5
    IN [k \in {SwipeId(Artist, t) : t \in ids} |->
          LET t == CHOOSE x \in ids : SwipeId(Artist, x) = k IN HistoryRow(t, opt(t))]

LikeItem(user_id, track_id) == [user_id |-> user_id, track_id |-> track_id]

LikeHistories == {{LikeItem(Artist, t) : t \in S} : S \in SUBSET {"t1", "t2"}}

\* The reads of one request that may fail.
QuerySites == {"swipes_all", "swipes_genre", "likes_genre", "swipes_mood",
               "swipes_bpm", "swipes_bm", "likes_bm"}
GetSites == {"get_genre_swipe", "get_genre_like", "get_mood", "get_bpm", "get_bm"}

FailUniverse == (QuerySites \X {""}) \cup (GetSites \X {"t1", "t2", "t5"})

\* At most MaxFailures reads fail in one request.
MaxFailures == 1

RECURSIVE SetsUpTo(_, _)
SetsUpTo(U, k) ==
    IF k = 0 THEN {{}}
    ELSE LET smaller == SetsUpTo(U, k - 1)
         IN smaller \cup {S \cup {x} : S \in smaller, x \in U}

FailureSets == SetsUpTo(FailUniverse, MaxFailures)

NoPreferences ==
    [genre_preferences |-> EmptyTable, mood_preferences |-> EmptyTable,
     bpm_preferences |-> default_bpm_prefs, beatmaker_preferences |-> EmptyTable,
     swiped_track_ids |-> {}, user_id |-> NoVal]

NoTrack == Track(NoVal, NoVal, FALSE, NoVal, NoVal, 0, 0, 0, FALSE, 0, NoVal)

\* The state of a recommendation request: the locals of lambda_handler and
\* get_recommendations, the track and score of the last score_track call,
\* whether the read of the user's swipes (for exclusion) raised, whether
\* a read of the user's profile row raised, and whether the filtered scan
\* of the tracks raised.
RecStart ==
    [pc |-> "start", N |-> 0, start_time |-> 0, user_profile |-> EmptyProfile,
     preferences |-> NoPreferences, all_tracks |-> <<>>, idx |-> 0,
     scored_tracks |-> <<>>, recommended |-> <<>>,
     track |-> NoTrack, score |-> Rat(0, 1), swipes_read_failed |-> FALSE,
     profile_read_failed |-> FALSE, scan_failed |-> FALSE]

(***************************************************************************)
(* SpecPrefs: the aggregator and the scorer applied to every history,      *)
(* profile and failure set of the bounded sets above.                      *)
(***************************************************************************)
InitPrefs ==
    /\ \E p \in ProfileChoices : users = [UsersTable EXCEPT ![Artist] = p]
    /\ tracks = CatalogueSeq
    /\ \E h \in HistoryOptions : swipes = SwipeHistory(h)
    /\ matches = EmptyTable
    /\ likes \in LikeHistories
    /\ clock = 0
    /\ resp = NoResponse
    /\ rec = RecStart
    /\ calls = NoCalls

PrefsAnalyze ==
    /\ rec.pc = "start"
    /\ \E F \in FailureSets, profile \in {users[Artist], EmptyProfile} :
          rec' = [rec EXCEPT !.pc = "analyzed",
                             !.user_profile = profile,
                             !.swipes_read_failed = Failed(F, "swipes_all", ""),
                             !.preferences = analyze_user_preferences(Artist, profile, F)]
    /\ UNCHANGED <<users, tracks, swipes, matches, likes, clock, resp, calls>>

PrefsScore ==
    /\ rec.pc = "analyzed"
    /\ \E i \in 1..Len(tracks) :
          rec' = [rec EXCEPT !.pc = "scored", !.track = tracks[i],
                             !.score = score_track(tracks[i], rec.preferences)]
    /\ UNCHANGED <<users, tracks, swipes, matches, likes, clock, resp, calls>>

NextPrefs == PrefsAnalyze \/ PrefsScore

SpecPrefs == InitPrefs /\ [][NextPrefs]_vars

(***************************************************************************)
(* Recommendation selector: ImprovedRecommender.get_recommendations, and   *)
(* the request handler around it.                                          *)
(***************************************************************************)
max_execution_time == 3
ScanLimit == 80
FallbackScanLimit == 50
OtherSampleCap == 20
PreferredThreshold == 5

\* A blocking call or a scoring iteration takes no time or MaxDelay seconds.
MaxDelay == 2
\* The clock stops being advanced at MaxClock.
MaxClock == 6
\* MAX_RECOMMENDATIONS ranges over 1..MaxN.
MaxN == 2

Delays == {d \in {0, MaxDelay} : clock + d <= MaxClock}

Take(seq, n) == IF Len(seq) <= n THEN seq ELSE SubSeq(seq, 1, n)

IsPublic(t) == ~t.isPrivate

\* All orderings of the elements of a set, as sequences.
RECURSIVE Orderings(_)
Orderings(S) ==
    IF S = {} THEN {<<>>}
    ELSE UNION {{<<x>> \o rest : rest \in Orderings(S \ {x})} : x \in S}

\* random.sample(population, k): any k distinct elements in any order.
RandomSamples(population, k) ==
    UNION {Orderings(S) : S \in {X \in SUBSET Range(population) : Cardinality(X) = k}}

\* tracks_table.scan(FilterExpression=Attr('isPrivate').ne(True), Limit=80)
ScanPublic == SelectSeq(Take(tracks, ScanLimit), IsPublic)

\* tracks_table.scan(Limit=50)
ScanFallback == Take(tracks, FallbackScanLimit)

preferred_genres(preferences) ==
    {g \in DOMAIN preferences.genre_preferences :
        preferences.genre_preferences[g].num
            > PreferredThreshold * preferences.genre_preferences[g].den}

\* The in-memory genre filter: the candidate lists it can produce.
GenreFilter(scanned, preferences) ==
    LET pg == preferred_genres(preferences)
        InPreferred(t) == t.genre \in pg
        NotPreferred(t) == t.genre \notin pg
        preferred_tracks == SelectSeq(scanned, InPreferred)
        other_tracks == SelectSeq(scanned, NotPreferred)
        sample_size == IF Len(other_tracks) < OtherSampleCap THEN Len(other_tracks)
                       ELSE OtherSampleCap
    IN IF scanned # <<>> /\ DOMAIN preferences.genre_preferences # {} /\ pg # {}
       THEN {preferred_tracks \o other_sample :
                other_sample \in RandomSamples(other_tracks, sample_size)}
       ELSE {scanned}

\* Step 3 of get_recommendations: the candidate lists, by outcome of the scans.
Candidates(preferences, scan_fails, fallback_fails) ==
    IF ~scan_fails THEN GenreFilter(ScanPublic, preferences)
    ELSE IF ~fallback_fails THEN {ScanFallback}
    ELSE {<<>>}

\* All scores of one request share ScoreDen, so numerators compare.
ScoreGeq(a, b) == a.num >= b.num

\* scored_tracks.sort(key=score, reverse=True): stable, descending.
RECURSIVE InsertDesc(_, _)
InsertDesc(x, sorted) ==
    IF sorted = <<>> THEN <<x>>
    ELSE IF ScoreGeq(Head(sorted).score, x.score)
         THEN <<Head(sorted)>> \o InsertDesc(x, Tail(sorted))
         ELSE <<x>> \o sorted

RECURSIVE SortDesc(_)
SortDesc(seq) ==
    IF seq = <<>> THEN <<>>
    ELSE InsertDesc(seq[Len(seq)], SortDesc(SubSeq(seq, 1, Len(seq) - 1)))

MinInt(a, b) == IF a < b THEN a ELSE b

TracksOf(scored) == [i \in 1..Len(scored) |-> scored[i].track]

\* top_count = int(min(len(scored_tracks), max_recommendations) * 0.8)
top_count(scored, N) == (MinInt(Len(scored), N) * 8) \div 10

\* Select drawing max_recommendations random tracks instead of
\* max_recommendations - top_count.
Select_SampleN(scored_tracks, N) ==
    LET sorted == SortDesc(scored_tracks)
        tc == top_count(sorted, N)
        top_tracks == TracksOf(SubSeq(sorted, 1, tc))
        remaining_tracks == TracksOf(SubSeq(sorted, tc + 1, Len(sorted)))
    IN {top_tracks \o random_tracks :
           random_tracks \in RandomSamples(remaining_tracks,
                                           MinInt(N, Len(remaining_tracks)))}

\* Select without the sort of line 718.
Select_Unsorted(scored_tracks, N) ==
    LET sorted == scored_tracks
        tc == top_count(sorted, N)
        top_tracks == TracksOf(SubSeq(sorted, 1, tc))
        NotInTop(t) == t \notin Range(top_tracks)
        remaining_tracks == SelectSeq(TracksOf(SubSeq(sorted, tc + 1, Len(sorted))), NotInTop)
    IN {top_tracks \o random_tracks :
           random_tracks \in RandomSamples(remaining_tracks,
                                           MinInt(N - tc, Len(remaining_tracks)))}

\* Select returning the top tracks only, without the random part.
Select_TopOnly(scored_tracks, N) ==
    LET sorted == SortDesc(scored_tracks)
        tc == top_count(sorted, N)
    IN {TracksOf(SubSeq(sorted, 1, tc))}

\* Step 5: the lists the explore/exploit split can return.
Select(scored_tracks, N) ==
    LET sorted == SortDesc(scored_tracks)
        tc == top_count(sorted, N)
        top_tracks == TracksOf(SubSeq(sorted, 1, tc))
        NotInTop(t) == t \notin Range(top_tracks)
        remaining_tracks == SelectSeq(TracksOf(SubSeq(sorted, tc + 1, Len(sorted))), NotInTop)
    IN {top_tracks \o random_tracks :
           random_tracks \in RandomSamples(remaining_tracks,
                                           MinInt(N - tc, Len(remaining_tracks)))}

\* A candidate the recommender may show to user_id: public, not the user's
\* own, not yet swiped by the user.
ValidCandidate(t, user_id) ==
    /\ ~t.isPrivate
    /\ t.user_id # user_id
    /\ ~\E sw \in Rows(swipes) : sw.user_id = user_id /\ sw.track_id = t.track_id

\* original_recommender.SimpleRecommender.get_recommendations: the simple
\* filter-based variant, the first N valid candidates in scan order.
SimpleRecommender(user_id, N) ==
    LET Valid(t) == ValidCandidate(t, user_id) IN Take(SelectSeq(tracks, Valid), N)

\* generate_presigned_urls: a track whose processing raises (a cover_image
\* that is not a string) is dropped, every other track is kept.
generate_presigned_urls(list) ==
    LET Processed(t) == t.cover_image # "bad" IN SelectSeq(list, Processed)

RecResponse(code, msg, list) ==
    [statusCode |-> code, message |-> msg, tracks |-> list, count |-> Len(list)]

\* RespondWith answering 404 when there is nothing to recommend.
RespondWith_EmptyIsError(recommended_tracks, user_id, N) ==
    LET final == IF recommended_tracks = <<>> THEN SimpleRecommender(user_id, N)
                 ELSE recommended_tracks
    IN IF final = <<>> THEN RecResponse(404, "Aucune recommandation", <<>>)
       ELSE RecResponse(200, "", generate_presigned_urls(final))

\* Lines 786-807 of lambda_handler: fallback, URLs, response.
RespondWith(recommended_tracks, user_id, N) ==
    LET final == IF recommended_tracks = <<>> THEN SimpleRecommender(user_id, N)
                 ELSE recommended_tracks
    IN RecResponse(200, "", generate_presigned_urls(final))

RecRequests == [auth : BOOLEAN, user : {"a1", "b1", "ghost"}]

\* Lines 755-784 of lambda_handler: authentication, profile, role.
ValidateRec(req, read_fails) ==
    IF ~req.auth THEN RecResponse(401, "Utilisateur non authentifie", <<>>)
    ELSE IF read_fails THEN RecResponse(500, "Erreur interne du serveur", <<>>)
    ELSE IF req.user \notin DOMAIN users
        THEN RecResponse(404, "Profil utilisateur non trouve", <<>>)
    ELSE IF Lower(IF users[req.user].userType = NoVal THEN ""
                  ELSE users[req.user].userType) # "rappeur"
        THEN RecResponse(403, "BeatSwipe est uniquement disponible pour les artistes", <<>>)
    ELSE RecResponse(200, "valid", <<>>)

Frame == UNCHANGED <<users, tracks, swipes, matches, likes, calls>>

\* lambda_handler up to the call of get_recommendations, which starts the budget.
RecBegin ==
    /\ rec.pc = "start"
    /\ \E req \in RecRequests, read_fails \in BOOLEAN, n \in 1..MaxN :
          LET v == ValidateRec(req, read_fails) IN
          IF v.statusCode # 200
          THEN /\ resp' = v
               /\ rec' = [rec EXCEPT !.pc = "rejected",
                                     !.profile_read_failed = req.auth /\ read_fails]
          ELSE /\ resp' = resp
               /\ rec' = [rec EXCEPT !.pc = "fetch_profile", !.N = n,
                                     !.start_time = clock,
                                     !.preferences = [NoPreferences EXCEPT !.user_id = req.user]]
    /\ UNCHANGED clock
    /\ Frame

\* Step 1: users_table.get_item, {} on failure.
RecFetchProfile ==
    /\ rec.pc = "fetch_profile"
    /\ \E fails \in BOOLEAN, d \in Delays :
          /\ rec' = [rec EXCEPT !.pc = "analyze",
                                !.profile_read_failed = fails,
                                !.user_profile = IF fails THEN EmptyProfile
                                                 ELSE users[rec.preferences.user_id]]
          /\ clock' = clock + d
    /\ UNCHANGED resp
    /\ Frame

\* Step 2: analyze_user_preferences.
RecAnalyze ==
    /\ rec.pc = "analyze"
    /\ \E F \in FailureSets, d \in Delays :
          /\ rec' = [rec EXCEPT !.pc = "scan",
                                !.swipes_read_failed = Failed(F, "swipes_all", ""),
                                !.preferences = analyze_user_preferences(
                                    rec.preferences.user_id, rec.user_profile, F)]
          /\ clock' = clock + d
    /\ UNCHANGED resp
    /\ Frame

\* Step 3: the scan, the genre filter, the fallback scan.
RecScan ==
    /\ rec.pc = "scan"
    /\ \E scan_fails \in BOOLEAN, fallback_fails \in BOOLEAN, d \in Delays :
       \E all_tracks \in Candidates(rec.preferences, scan_fails, fallback_fails) :
          /\ rec' = [rec EXCEPT !.pc = "scoring", !.all_tracks = all_tracks, !.idx = 1,
                                !.scan_failed = scan_fails]
          /\ clock' = clock + d
    /\ UNCHANGED resp
    /\ Frame

\* The budget check never firing.
TimedOut_Never == FALSE

TimedOut == clock - rec.start_time > max_execution_time

\* Step 4, one iteration: the budget check, then score_track.
RecScoreStep ==
    /\ rec.pc = "scoring"
    /\ rec.idx <= Len(rec.all_tracks)
    /\ ~TimedOut
    /\ LET track == rec.all_tracks[rec.idx]
           score == score_track(track, rec.preferences)
       IN \E d \in Delays :
          /\ rec' = [rec EXCEPT !.idx = rec.idx + 1, !.track = track, !.score = score,
                                !.scored_tracks =
                                    IF score.num >= 0
                                    THEN Append(rec.scored_tracks,
                                                [track |-> track, score |-> score])
                                    ELSE rec.scored_tracks]
          /\ clock' = clock + d
    /\ UNCHANGED resp
    /\ Frame

\* The loop ends (exhausted or budget exceeded): step 5, the return to
\* lambda_handler, and the response.  None of this waits on a store.
RecFinish ==
    /\ rec.pc = "scoring"
    /\ rec.idx > Len(rec.all_tracks) \/ TimedOut
    /\ \E recommended \in Select(rec.scored_tracks, rec.N) :
          /\ rec' = [rec EXCEPT !.pc = "done", !.recommended = recommended]
          /\ resp' = RespondWith(recommended, rec.preferences.user_id, rec.N)
    /\ UNCHANGED clock
    /\ Frame

\* The track store: the catalogue from any track on (the empty store
\* included), or its first two tracks only (a private one and the artist's own).
StoreChoices ==
    {SubSeq(CatalogueSeq, i, Len(CatalogueSeq)) : i \in 1..(Len(CatalogueSeq) + 1)}
    \cup {SubSeq(CatalogueSeq, 1, 2)}

RecProfileChoices == {Profile(<<>>, NoVal), Profile(<<"Jazz", "Trap">>, "Energetic")}

RecLikeHistories == {{}, {LikeItem(Artist, "t2")}}

RecHistoryOptions == [t1 : {"none", "right"}, t2 : {"none", "left"}, t5 : {"none"}]

InitRec ==
    /\ \E p \in RecProfileChoices : users = [UsersTable EXCEPT ![Artist] = p]
    /\ tracks \in StoreChoices
    /\ \E h \in RecHistoryOptions : swipes = SwipeHistory(h)
    /\ matches = EmptyTable
    /\ likes \in RecLikeHistories
    /\ clock = 0
    /\ resp = NoResponse
    /\ rec = RecStart
    /\ calls = NoCalls

NextRec ==
    \/ RecBegin
    \/ RecFetchProfile
    \/ RecAnalyze
    \/ RecScan
    \/ RecScoreStep
    \/ RecFinish

SpecRec == InitRec /\ [][NextRec]_vars

(***************************************************************************)
(* Properties of the recommender (checked under SpecPrefs and SpecRec).    *)
(***************************************************************************)
IdsOf(seq) == {seq[i].track_id : i \in 1..Len(seq)}

HasSwipeRow(user_id, track_id) ==
    \E sw \in Rows(swipes) : sw.user_id = user_id /\ sw.track_id = track_id

\* The request has a preference profile (the aggregator has run).
HasProfile == rec.pc \in {"scan", "scoring", "done"}

\* T gets the sentinel and is in no list the request returns.
NeverRecommended(t) ==
    /\ HasProfile => score_track(t, rec.preferences) = Sentinel(rec.preferences)
    /\ rec.pc = "done" => ( /\ t.track_id \notin IdsOf(rec.recommended)
                            /\ t.track_id \notin IdsOf(resp.tracks) )

NumValidCandidates ==
    Cardinality({i \in 1..Len(tracks) : ValidCandidate(tracks[i], Artist)})

\* C6 as claimed: get_recommendations(U, N) returns at most N tracks, and
\* exactly N whenever the store holds at least N valid candidates.
C6_BatchSizeAsClaimed ==
    rec.pc = "done" =>
        /\ Len(rec.recommended) <= rec.N
        /\ NumValidCandidates >= rec.N => Len(rec.recommended) = rec.N

\* C6 amended: at most N tracks, and exactly N whenever at least N candidates
\* were scored non-negative before the scoring loop ended.
C6_BatchSize ==
    rec.pc = "done" =>
        /\ Len(rec.recommended) <= rec.N
        /\ Len(rec.scored_tracks) >= rec.N => Len(rec.recommended) = rec.N

\* C6 witness: three candidates were scored and exactly N = 2 were returned.
C6_Witness ==
    /\ rec.pc = "done"
    /\ rec.N = 2
    /\ Len(rec.scored_tracks) = 3
    /\ Len(rec.recommended) = 2

\* C7: the score of a track that is not excluded lies in [0, 10], for every
\* profile the aggregator produces.
C7_ScoreBounds ==
    (rec.pc = "scored" /\ ~Excluded(rec.track, rec.preferences)) =>
        /\ rec.score.num >= 0
        /\ rec.score.num <= 10 * rec.score.den

\* C7 witness: a track that is not excluded has scored above 9.
C7_Witness ==
    /\ rec.pc = "scored"
    /\ ~Excluded(rec.track, rec.preferences)
    /\ rec.score.num > 9 * rec.score.den

\* C8: for a user with no swipe, no like and no declared genre or mood, the
\* profile has a non-empty genre map and a non-empty mood map.
C8_ColdStartMapsNonEmpty ==
    ( /\ rec.pc = "analyzed"
      /\ swipes = EmptyTable
      /\ likes = {}
      /\ users[Artist].musicGenres = <<>>
      /\ users[Artist].musicalMood = NoVal )
    => ( /\ DOMAIN rec.preferences.genre_preferences # {}
         /\ DOMAIN rec.preferences.mood_preferences # {} )

\* C9: get_recommendations returns within the budget window: when it
\* returns, no more than the budget plus the one call that was in flight
\* when the budget ran out has elapsed.
C9_ReturnsWithinBudget ==
    rec.pc = "done" => clock - rec.start_time <= max_execution_time + MaxDelay

NoHistoryProfile(user_id, user_profile) ==
    LET explicit == user_profile.musicGenres
        user_mood == user_profile.musicalMood
    IN [genre_preferences |->
            IF explicit = <<>> THEN Normalize([g \in DefaultGenres |-> 2])
            ELSE Normalize([g \in Range(explicit) |-> 6 * Occurrences(explicit, g)]),
        mood_preferences |->
            IF Falsy(user_mood) THEN EmptyTable ELSE Normalize([m \in {user_mood} |-> 5]),
        bpm_preferences |-> default_bpm_prefs,
        beatmaker_preferences |-> EmptyTable,
        swiped_track_ids |-> {},
        user_id |-> user_id]

\* The user's recent right swipes: the tracks the per-track reads go over.
RecentRightIds(user_id) ==
    TrackIdsOfRows(get_user_swipes(user_id, "right", DaysLimit, FALSE))

\* The per-track reads of a call site have tracks to read and all fail.
GetsFail(F, site, ids) == ids # {} /\ \A t \in ids : Failed(F, site, t)

\* C19: whatever reads fail during the aggregation, a dimension whose reads
\* failed (its queries, or its per-track reads) has the value it has for a
\* user without history.
C19_FailedDimensionIsDefault ==
    rec.pc = "analyzed" =>
        \A F \in SetsUpTo(FailUniverse, MaxFailures + 1) :
            LET p == analyze_user_preferences(Artist, rec.user_profile, F)
                cold == NoHistoryProfile(Artist, rec.user_profile)
                recent == RecentRightIds(Artist)
            IN /\ (Failed(F, "swipes_genre", "") /\ Failed(F, "likes_genre", ""))
                     => p.genre_preferences = cold.genre_preferences
               /\ (Failed(F, "swipes_mood", "") \/ GetsFail(F, "get_mood", recent))
                     => p.mood_preferences = cold.mood_preferences
               /\ (Failed(F, "swipes_bpm", "") \/ GetsFail(F, "get_bpm", recent))
                     => p.bpm_preferences = cold.bpm_preferences
               /\ (Failed(F, "swipes_bm", "") /\ Failed(F, "likes_bm", ""))
                     => p.beatmaker_preferences = cold.beatmaker_preferences
               /\ Failed(F, "swipes_all", "") => p.swiped_track_ids = {}

\* C20: a BPM preference without explicit preference (no usable tempo value
\* in the sample) is the default: mean 125, min 90, max 160.
C20_BpmDefault ==
    (rec.pc = "analyzed" /\ ~rec.preferences.bpm_preferences.has_preference)
        => rec.preferences.bpm_preferences = default_bpm_prefs

\* C18: a recommendation request in which a read of the user's profile row
\* raised is never answered with an error: it is still in progress, or it
\* has been answered 200 with the list get_recommendations returned.
C18_ProfileReadFailureTolerated ==
    rec.profile_read_failed =>
        /\ rec.pc # "rejected"
        /\ resp.statusCode \in {0, 200}
        /\ rec.pc = "done" => resp.statusCode = 200

(***************************************************************************)
(* SpecMatches: the match listing, lambda_handler of                       *)
(* _BeatSwipeGetMatches.py, over the match tables that right swipes of two *)
(* artists produce.                                                        *)
(***************************************************************************)
MatchSwipeRequests ==
    [auth : {TRUE}, user : {"a1", "a2"}, trackId : {"t1", "t5"}, action : {"right"}]

MatchesRequests ==
    [auth : {TRUE}, user : {"a1", "a2", "b1", "b2", "u0", "ghost"}]
    \cup [auth : {FALSE}, user : {"a1"}]

MatchesResponse(code, msg, list) ==
    [statusCode |-> code, message |-> msg, matches |-> list, count |-> Len(list)]

\* The user_type computed at line 164.
UserTypeOf(user_id) ==
    Lower(IF users[user_id].userType = NoVal THEN "" ELSE users[user_id].userType)

\* Lines 170-177: the index queried and the attribute of its key condition.
IndexKey(user_type) ==
    CASE user_type = "rappeur"                    -> "artist_id"
      [] user_type \in {"beatmaker", "loopmaker"} -> "beatmaker_id"
      [] OTHER                                    -> NoVal

MatchesOfIndex(index_key, user_id) ==
    {m \in Rows(matches) : IF index_key = "artist_id" THEN m.artist_id = user_id
                           ELSE m.beatmaker_id = user_id}

\* The query with ScanIndexForward=True: oldest first.
QueryMatches_Forward(index_key, user_id) ==
    {seq \in Orderings(MatchesOfIndex(index_key, user_id)) :
        \A i \in 1..(Len(seq) - 1) : seq[i].timestamp <= seq[i + 1].timestamp}

\* Lines 186-190: matches_table.query on the index whose sort key is the
\* timestamp, ScanIndexForward=False; rows of equal timestamp come in any order.
QueryMatches(index_key, user_id) ==
    {seq \in Orderings(MatchesOfIndex(index_key, user_id)) :
        \A i \in 1..(Len(seq) - 1) : seq[i].timestamp >= seq[i + 1].timestamp}

\* Lines 198-265: the fields of an enriched match that come from the row.
Enriched(m) ==
    [match_id |-> m.match_id, timestamp |-> m.timestamp, status |-> m.status,
     track_id |-> m.track_id, artist_id |-> m.artist_id, beatmaker_id |-> m.beatmaker_id]

RECURSIVE Enrich(_, _)
\* Lines 196-270: the loop; a match whose reads raise is logged and skipped.
Enrich(seq, failing) ==
    IF seq = <<>> THEN <<>>
    ELSE IF Head(seq).match_id \in failing THEN Enrich(Tail(seq), failing)
    ELSE <<Enriched(Head(seq))>> \o Enrich(Tail(seq), failing)

\* The responses of one call.  read_fails: the read of the caller's profile
\* raises; query_fails: the query raises; failing: the matches whose
\* enrichment reads raise.
GetMatchesResponses(req, read_fails, query_fails, failing) ==
    IF ~req.auth
        THEN {MatchesResponse(401, "Unauthorized: Missing authentication", <<>>)}
    ELSE IF read_fails THEN {MatchesResponse(500, "Internal server error", <<>>)}
    ELSE IF req.user \notin DOMAIN users
        THEN {MatchesResponse(404, "User profile not found", <<>>)}
    ELSE IF IndexKey(UserTypeOf(req.user)) = NoVal
        THEN {MatchesResponse(400, "Invalid user type", <<>>)}
    ELSE IF query_fails THEN {MatchesResponse(500, "Internal server error", <<>>)}
    ELSE {MatchesResponse(200, "", Enrich(seq, failing)) :
             seq \in QueryMatches(IndexKey(UserTypeOf(req.user)), req.user)}

GetMatches(req, read_fails, query_fails, failing) ==
    /\ resp' \in GetMatchesResponses(req, read_fails, query_fails, failing)
    /\ UNCHANGED <<users, tracks, swipes, matches, likes, clock, rec, calls>>

MatchFailures == SetsUpTo(DOMAIN matches, MaxFailures)

DoGetMatches ==
    \E req \in MatchesRequests, read_fails \in BOOLEAN, query_fails \in BOOLEAN,
       failing \in MatchFailures :
        GetMatches(req, read_fails, query_fails, failing)

MatchesSwipe == \E req \in MatchSwipeRequests : RecordSwipe(req)

NextMatches ==
    \/ MatchesSwipe
    \/ Tick
    \/ DoGetMatches

SpecMatches == Init /\ [][NextMatches]_vars

IsSortedDesc(list) ==
    \A i \in 1..(Len(list) - 1) : list[i].timestamp >= list[i + 1].timestamp

\* The listing holds each of the rows once, as stored, most recent first.
ListsExactly(list, rows) ==
    /\ Len(list) = Cardinality(rows)
    /\ {list[i] : i \in 1..Len(list)} = {Enriched(m) : m \in rows}
    /\ IsSortedDesc(list)

\* What the caller of req is owed, given the rows that may be left out.
ListingOwed(req, response, left_out) ==
    LET user_type == UserTypeOf(req.user) IN
    /\ user_type = "rappeur" =>
          /\ response.statusCode = 200
          /\ ListsExactly(response.matches,
                 {m \in Rows(matches) : m.artist_id = req.user /\ m.match_id \notin left_out})
    /\ user_type \in {"beatmaker", "loopmaker"} =>
          /\ response.statusCode = 200
          /\ ListsExactly(response.matches,
                 {m \in Rows(matches) : m.beatmaker_id = req.user /\ m.match_id \notin left_out})
    /\ user_type \notin {"rappeur", "beatmaker", "loopmaker"} =>
          /\ response.statusCode \in 400..499
          /\ response.matches = <<>>

ScenarioN == 4
PoolSize == 5

\* The tracks of the pool at their extremes: a Trap track with nothing else
\* in its favour or with everything, a Jazz track likewise.
PoolTrack(genre, i, best) ==
    Track((IF genre = "Trap" THEN "r" ELSE "j") \o ToString(i),
          IF genre = "Trap" THEN "b1" ELSE "b2", FALSE, genre,
          IF best THEN "Energetic" ELSE "Chill",
          IF genre = "Trap" THEN 140 ELSE 92,
          IF best THEN 400 ELSE 0, IF best THEN 9000 ELSE 0,
          TRUE, IF best THEN 3 ELSE 400, NoVal)

\* 5 tracks of a genre, the first n_best of them at their best.
PoolOf(genre, n_best) == [i \in 1..PoolSize |-> PoolTrack(genre, i, i <= n_best)]

RECURSIVE Interleave(_, _)
Interleave(a, b) ==
    IF a = <<>> THEN b ELSE <<Head(a)>> \o Interleave(b, Tail(a))

\* The pools, in the scan orders Trap first, Jazz first and alternating.
ScenarioPools ==
    UNION {LET trap == PoolOf("Trap", nt)
               jazz == PoolOf("Jazz", nj)
           IN {trap \o jazz, jazz \o trap, Interleave(jazz, trap)} :
           nt \in {0, 2, 5}, nj \in {0, 3, 5}}

InitScenario ==
    /\ users = [UsersTable EXCEPT ![Artist] = Profile(<<"Trap">>, "Energetic")]
    /\ tracks \in ScenarioPools
    /\ swipes = EmptyTable
    /\ matches = EmptyTable
    /\ likes = {}
    /\ clock = 0
    /\ resp = NoResponse
    /\ rec = [RecStart EXCEPT !.N = ScenarioN]
    /\ calls = NoCalls

\* Steps 1 and 2 of get_recommendations.
ScenAnalyze ==
    /\ rec.pc = "start"
    /\ rec' = [rec EXCEPT !.pc = "scan", !.user_profile = users[Artist],
                          !.preferences = analyze_user_preferences(Artist, users[Artist], {})]
    /\ UNCHANGED <<resp, clock>>
    /\ Frame

\* Step 3.
ScenScan ==
    /\ rec.pc = "scan"
    /\ \E all_tracks \in Candidates(rec.preferences, FALSE, FALSE) :
          rec' = [rec EXCEPT !.pc = "scoring", !.all_tracks = all_tracks, !.idx = 1]
    /\ UNCHANGED <<resp, clock>>
    /\ Frame

\* Step 4, one iteration.
ScenScoreStep ==
    /\ rec.pc = "scoring"
    /\ rec.idx <= Len(rec.all_tracks)
    /\ LET track == rec.all_tracks[rec.idx]
           score == score_track(track, rec.preferences)
       IN rec' = [rec EXCEPT !.idx = rec.idx + 1, !.track = track, !.score = score,
                             !.scored_tracks =
                                 IF score.num >= 0
                                 THEN Append(rec.scored_tracks,
                                             [track |-> track, score |-> score])
                                 ELSE rec.scored_tracks]
    /\ UNCHANGED <<resp, clock>>
    /\ Frame

\* Step 5.
ScenSelect ==
    /\ rec.pc = "scoring"
    /\ rec.idx > Len(rec.all_tracks)
    /\ \E recommended \in Select(rec.scored_tracks, rec.N) :
          rec' = [rec EXCEPT !.pc = "done", !.recommended = recommended]
    /\ UNCHANGED <<resp, clock>>
    /\ Frame

NextScenario ==
    \/ ScenAnalyze
    \/ ScenScan
    \/ ScenScoreStep
    \/ ScenSelect

SpecScenario == InitScenario /\ [][NextScenario]_vars

\* C17: in the scenario every Trap track scores above every Jazz track, and
\* the call returns exactly 4 distinct tracks of the pool, the first 3 of
\* them Trap tracks.
C17_TrapScenario ==
    /\ rec.pc # "start" =>
          \A i \in 1..Len(tracks) : \A j \in 1..Len(tracks) :
              (tracks[i].genre = "Trap" /\ tracks[j].genre = "Jazz")
              => score_track(tracks[i], rec.preferences).num
                    > score_track(tracks[j], rec.preferences).num
    /\ rec.pc = "done" =>
          /\ Len(rec.recommended) = 4
          /\ \A i \in 1..3 : rec.recommended[i].genre = "Trap"
          /\ Cardinality(IdsOf(rec.recommended)) = 4
          /\ IdsOf(rec.recommended) \subseteq TrackIdsOf(tracks)

\* C17 witness: the pool's Jazz tracks are at their best and its Trap tracks
\* at their worst, and the fourth track returned is a Jazz track.
C17_Witness ==
    /\ rec.pc = "done"
    /\ \A i \in 1..Len(tracks) :
          tracks[i].mood = (IF tracks[i].genre = "Jazz" THEN "Energetic" ELSE "Chill")
    /\ rec.recommended[4].genre = "Jazz"

(***************************************************************************)
(* SpecScore: score_track as a pure function, applied to one track and one *)
(* preference record drawn from bounded sets that put the track on both    *)
(* sides of every tier threshold.                                          *)
(***************************************************************************)
\* The raw maps the aggregator normalizes: empty (every read failed), one
\* key, two keys.
ScoreGenreMaps ==
    {EmptyTable, Normalize([g \in {"Trap"} |-> 3]),
     Normalize([g \in {"Trap", "Jazz"} |-> IF g = "Trap" THEN 4 ELSE 3])}

ScoreMoodMaps ==
    {EmptyTable, Normalize([m \in {"Energetic", "Chill"} |-> IF m = "Chill" THEN 1 ELSE 2])}

ScoreBeatmakerMaps ==
    {EmptyTable, Normalize([b \in {"b1", "b2"} |-> IF b = "b1" THEN 3 ELSE 2])}

\* The default, the all-None result, an average of 120 and one of 120.5.
ScoreBpmPrefs ==
    {default_bpm_prefs, BpmPrefs(0, 0, 0, 0, FALSE, FALSE),
     BpmPrefs(120, 1, 120, 120, TRUE, TRUE), BpmPrefs(241, 2, 120, 121, TRUE, TRUE)}

ScorePreferences ==
    {[genre_preferences |-> g, mood_preferences |-> m,
      bpm_preferences |-> b, beatmaker_preferences |-> c,
      swiped_track_ids |-> s, user_id |-> Artist] :
        g \in ScoreGenreMaps, m \in ScoreMoodMaps, b \in ScoreBpmPrefs,
        c \in ScoreBeatmakerMaps, s \in {{}, {"s1"}}}

\* Genre and mood of the drawn track, its likes and plays (weighted sum 0,
\* 1998 and 2002 around the cap at 2000), and its age in days (0 with no
\* created_at).
ScoreGenreMoods == {<<"Trap", "Energetic">>, <<"Jazz", NoVal>>, <<NoVal, "Chill">>}
ScoreLikesPlays == {<<0, 0>>, <<285, 1>>, <<286, 0>>}
ScoreBpms == {0, 125, 126, 130, 131, 140, 141, 150, 151}
ScoreAges == {0, 7, 8, 30, 31, 90, 91}

ScoreTracks ==
    {Track("s1", owner, FALSE, gm[1], gm[2], bpm, lp[1], lp[2], age # 0, age, NoVal) :
        owner \in {"b1", Artist}, gm \in ScoreGenreMoods, bpm \in ScoreBpms,
        lp \in ScoreLikesPlays, age \in ScoreAges}

InitScore ==
    /\ users = UsersTable
    /\ \E t \in ScoreTracks : tracks = <<t>>
    /\ swipes = EmptyTable
    /\ matches = EmptyTable
    /\ likes = {}
    /\ clock = 0
    /\ resp = NoResponse
    /\ \E p \in {q \in ScorePreferences :
                    DOMAIN q.mood_preferences = {} <=> DOMAIN q.beatmaker_preferences = {}} :
          rec = [RecStart EXCEPT !.pc = "analyzed", !.preferences = p]
    /\ calls = NoCalls

NextScore == PrefsScore

SpecScore == InitScore /\ [][NextScore]_vars

\* The score of key in a normalized map, 0 when the map has no such key.
MapScore(map, key) == IF key \in DOMAIN map THEN map[key] ELSE Rat(0, 1)

\* 0.35*genreScore + 0.25*moodScore + 0.15*creatorScore + 0.05*popularity
\* + 0.05*novelty: the score without its tempo component, over ScoreDen.
ScoreWithoutTempo(track, preferences) ==
    LET popularity == IF 7 * track.likes + 3 * track.plays >= 2000 THEN Rat(10, 1)
                      ELSE Rat(7 * track.likes + 3 * track.plays, 200)
        novelty == IF ~track.has_created_at THEN 5
                   ELSE IF track.age_days <= 7 THEN 10
                   ELSE IF track.age_days <= 30 THEN 7
                   ELSE IF track.age_days <= 90 THEN 5
                   ELSE 3
    IN Term(35, MapScore(preferences.genre_preferences, track.genre), preferences)
       + Term(25, MapScore(preferences.mood_preferences, track.mood), preferences)
       + Term(15, MapScore(preferences.beatmaker_preferences, track.user_id), preferences)
       + Term(5, popularity, preferences)
       + Term(5, Rat(novelty, 1), preferences)

TempoUnknown(track, preferences) ==
    track.bpm = 0 \/ ~preferences.bpm_preferences.has_preference

\* C21: when the track has no BPM or the profile has no tempo preference,
\* the tempo component of score_track adds a neutral value above zero to the
\* score: the score exceeds the sum of its five other components.
C21_NeutralTempo ==
    (rec.pc = "scored" /\ ~Excluded(rec.track, rec.preferences)
        /\ TempoUnknown(rec.track, rec.preferences))
    => rec.score.num > ScoreWithoutTempo(rec.track, rec.preferences)

\* tempoTier: |trackBpm - avgBpm| to 10/8/5/3/1 at 5/10/20/30, the average
\* being avg_sum / avg_n.
TempoTier(track_bpm, avg_sum, avg_n) ==
    LET diff_n == IF track_bpm * avg_n >= avg_sum THEN track_bpm * avg_n - avg_sum
                  ELSE avg_sum - track_bpm * avg_n
    IN CASE diff_n <= 5 * avg_n -> 10
         [] diff_n > 5 * avg_n /\ diff_n <= 10 * avg_n -> 8
         [] diff_n > 10 * avg_n /\ diff_n <= 20 * avg_n -> 5
         [] diff_n > 20 * avg_n /\ diff_n <= 30 * avg_n -> 3
         [] OTHER -> 1

\* C26: for every non-excluded track, score_track returns 0.35*genreScore
\* + 0.25*moodScore + 0.15*tempoTier + 0.15*creatorScore + 0.05*popularity
\* + 0.05*novelty, with the tempo tiers 10/8/5/3/1 at 5/10/20/30, the
\* popularity capped at 10 and the novelty tiers 10/7/5/3 at 7/30/90 days
\* (5 for unknown age); a component whose signal is absent adds nothing.
C26_ScoreFormula ==
    (rec.pc = "scored" /\ ~Excluded(rec.track, rec.preferences))
    => LET bp == rec.preferences.bpm_preferences
           tempo == IF TempoUnknown(rec.track, rec.preferences) THEN 0
                    ELSE Term(15, Rat(TempoTier(rec.track.bpm, bp.avg_sum, bp.avg_n), 1),
                              rec.preferences)
       IN /\ rec.score.den = ScoreDen(rec.preferences)
          /\ rec.score.num = ScoreWithoutTempo(rec.track, rec.preferences) + tempo

\* A track exactly 5 BPM from the average, 8 days old and over the
\* popularity cap, with a genre of the map, was scored.
C26_Witness ==
    /\ rec.pc = "scored" /\ ~Excluded(rec.track, rec.preferences)
    /\ rec.preferences.bpm_preferences = BpmPrefs(120, 1, 120, 120, TRUE, TRUE)
    /\ rec.track.bpm = 125 /\ rec.track.age_days = 8 /\ rec.track.likes = 286
    /\ rec.track.genre \in DOMAIN rec.preferences.genre_preferences
    /\ rec.score.num > 0

(***************************************************************************)
(* The maps of the aggregator (checked under SpecPrefs).                   *)
(***************************************************************************)
\* The largest value of a map is exactly 10 and every value is in (0, 10].
NormalizedByOwnMax(map) ==
    /\ \E k \in DOMAIN map : map[k].num = 10 * map[k].den
    /\ \A k \in DOMAIN map : map[k].den > 0 /\ 0 < map[k].num /\ map[k].num <= 10 * map[k].den

\* C25: each score map returned by the aggregator (genre, mood, preferred
\* creator) is normalized by its own maximum: if it is non-empty its largest
\* value is exactly 10 and every value lies in (0, 10].
C25_MapsNormalized ==
    rec.pc \in {"analyzed", "scored"}
    => \A map \in {rec.preferences.genre_preferences, rec.preferences.mood_preferences,
                   rec.preferences.beatmaker_preferences} :
          DOMAIN map # {} => NormalizedByOwnMax(map)

\* The aggregator returned three non-empty maps with different maxima (their
\* denominators), the genre map with a value below 10.
C25_Witness ==
    /\ rec.pc = "analyzed"
    /\ DOMAIN rec.preferences.genre_preferences # {}
    /\ DOMAIN rec.preferences.mood_preferences # {}
    /\ DOMAIN rec.preferences.beatmaker_preferences # {}
    /\ MapDen(rec.preferences.genre_preferences) # MapDen(rec.preferences.mood_preferences)
    /\ MapDen(rec.preferences.mood_preferences) # MapDen(rec.preferences.beatmaker_preferences)
    /\ \E g \in DOMAIN rec.preferences.genre_preferences :
          rec.preferences.genre_preferences[g].num
             < 10 * rec.preferences.genre_preferences[g].den

(***************************************************************************)
(* The list returned by get_recommendations (checked under SpecRec).       *)
(***************************************************************************)
\* The score a scored candidate got in the scoring loop.
ScoredNum(t) ==
    (CHOOSE e \in Range(rec.scored_tracks) : e.track = t).score.num

\* k = floor(0.8 * min(N, S)), S the number of candidates scored.
ClaimedK == (8 * MinInt(rec.N, Len(rec.scored_tracks))) \div 10

C30_ExactlyMinNS ==
    rec.pc = "done" =>
       LET S == Len(rec.scored_tracks)
       IN Len(rec.recommended) = (IF rec.N <= S THEN rec.N ELSE S)

\* The loop was ended by the budget with candidates left, one track had been
\* scored for N = 2, and one track was returned.
C30_Witness ==
    /\ rec.pc = "done"
    /\ rec.idx <= Len(rec.all_tracks)
    /\ rec.N = 2 /\ Len(rec.scored_tracks) = 1
    /\ Len(rec.recommended) = 1

\* The candidates score_track was called on, and those kept.
ScoredPrefix(r) == SubSeq(r.all_tracks, 1, r.idx - 1)

KeptOf(r) ==
    LET NonNegative(t) == score_track(t, r.preferences).num >= 0
    IN SelectSeq(ScoredPrefix(r), NonNegative)

\* C23: the candidates scored form a prefix of the candidate list; once a
\* budget check finds more than 3 seconds elapsed since the start, no
\* further candidate is scored and the function ranks and returns only
\* tracks scored before that point, without raising.
C23_BudgetStopsScoring ==
    [][/\ rec'.pc \in {"scoring", "done"} =>
             /\ rec'.idx - 1 <= Len(rec'.all_tracks)
             /\ TracksOf(rec'.scored_tracks) = KeptOf(rec')
       /\ (rec.pc = "scoring" /\ clock - rec.start_time > 3) =>
             /\ rec'.pc = "done"
             /\ rec'.idx = rec.idx
             /\ rec'.scored_tracks = rec.scored_tracks
             /\ Range(rec'.recommended) \subseteq Range(KeptOf(rec))
             /\ resp'.statusCode = 200]_vars

\* The budget check stopped the loop after two of three candidates, and the
\* two tracks scored were returned.
C23_Witness ==
    /\ rec.pc = "done"
    /\ clock - rec.start_time > 3
    /\ rec.idx = 3 /\ Len(rec.all_tracks) = 3
    /\ Len(rec.scored_tracks) = 2
    /\ Range(rec.recommended) = Range(TracksOf(rec.scored_tracks))

(***************************************************************************)
(* SpecFilter: step 3 of get_recommendations on stores with up to 22       *)
(* tracks outside the preferred genres, around the sample cap of 20.  Which*)
(* tracks random.sample draws is any subset of the sample size; the order  *)
(* of the sample, which the candidate set does not depend on, is kept as   *)
(* the scan order.                                                         *)
(***************************************************************************)
\* The elements of seq whose index is not in D, in order.
KeepAllBut(seq, D) ==
    LET F[i \in 0..Len(seq)] ==
            IF i = 0 THEN <<>>
            ELSE IF i \in D THEN F[i - 1] ELSE Append(F[i - 1], seq[i])
    IN F[Len(seq)]

\* random.sample(population, k) up to the order of the sample.
SamplesInOrder(population, k) ==
    LET n == Len(population)
    IN {KeepAllBut(population, D) :
           D \in {X \in SetsUpTo(1..n, n - k) : Cardinality(X) = n - k}}

\* GenreFilterInOrder without the cap min(20, .) on the sample.
GenreFilterInOrder_NoCap(scanned, preferences) ==
    LET pg == preferred_genres(preferences)
        InPreferred(t) == t.genre \in pg
        NotPreferred(t) == t.genre \notin pg
        preferred_tracks == SelectSeq(scanned, InPreferred)
        other_tracks == SelectSeq(scanned, NotPreferred)
        sample_size == Len(other_tracks)
    IN IF scanned # <<>> /\ DOMAIN preferences.genre_preferences # {} /\ pg # {}
       THEN {preferred_tracks \o other_sample :
                other_sample \in SamplesInOrder(other_tracks, sample_size)}
       ELSE {scanned}

\* The in-memory genre filter of lines 665-685.
GenreFilterInOrder(scanned, preferences) ==
    LET pg == preferred_genres(preferences)
        InPreferred(t) == t.genre \in pg
        NotPreferred(t) == t.genre \notin pg
        preferred_tracks == SelectSeq(scanned, InPreferred)
        other_tracks == SelectSeq(scanned, NotPreferred)
        sample_size == IF Len(other_tracks) < OtherSampleCap THEN Len(other_tracks)
                       ELSE OtherSampleCap
    IN IF scanned # <<>> /\ DOMAIN preferences.genre_preferences # {} /\ pg # {}
       THEN {preferred_tracks \o other_sample :
                other_sample \in SamplesInOrder(other_tracks, sample_size)}
       ELSE {scanned}

CandidatesInOrder(preferences, scan_fails, fallback_fails) ==
    IF ~scan_fails THEN GenreFilterInOrder(ScanPublic, preferences)
    ELSE IF ~fallback_fails THEN {ScanFallback}
    ELSE {<<>>}

\* Public tracks of b1: n_pref Trap tracks and n_other tracks of the genres
\* Rock, Jazz or of no genre, the Trap tracks first or last.
FilterTrack(id, genre) ==
    Track(id, "b1", FALSE, genre, NoVal, 0, 0, 0, FALSE, 0, NoVal)

OtherGenre(i) == IF i % 3 = 0 THEN "Jazz" ELSE IF i % 3 = 1 THEN "Rock" ELSE NoVal

FilterStore(n_pref, n_other, pref_first) ==
    LET pref == [i \in 1..n_pref |-> FilterTrack("p" \o ToString(i), "Trap")]
        other == [i \in 1..n_other |-> FilterTrack("o" \o ToString(i), OtherGenre(i))]
    IN IF pref_first THEN pref \o other ELSE other \o pref

FilterPrefCounts == {0, 2}
FilterOtherCounts == {0, 19, 20, 21, 22}

FilterStores ==
    {FilterStore(n_pref, n_other, pref_first) :
        n_pref \in FilterPrefCounts, n_other \in FilterOtherCounts, pref_first \in BOOLEAN}

\* No genre map (every read failed), Trap 10 and Jazz 2.5, Trap and Jazz 10.
FilterGenreMaps ==
    {EmptyTable, Normalize([g \in {"Trap", "Jazz"} |-> IF g = "Trap" THEN 4 ELSE 1]),
     Normalize([g \in {"Trap", "Jazz"} |-> 3])}

InitFilter ==
    /\ users = UsersTable
    /\ tracks \in FilterStores
    /\ swipes = EmptyTable
    /\ matches = EmptyTable
    /\ likes = {}
    /\ clock = 0
    /\ resp = NoResponse
    /\ \E g \in FilterGenreMaps :
          rec = [RecStart EXCEPT !.pc = "scan",
                                 !.preferences = [NoPreferences EXCEPT
                                                     !.genre_preferences = g,
                                                     !.user_id = Artist]]
    /\ calls = NoCalls

\* Step 3: the scan, the genre filter, the fallback scan.
FilterScan ==
    /\ rec.pc = "scan"
    /\ \E scan_fails \in BOOLEAN, fallback_fails \in BOOLEAN :
       \E all_tracks \in CandidatesInOrder(rec.preferences, scan_fails, fallback_fails) :
          rec' = [rec EXCEPT !.pc = "scoring", !.all_tracks = all_tracks, !.idx = 1,
                             !.scan_failed = scan_fails]
    /\ UNCHANGED <<resp, clock>>
    /\ Frame

NextFilter == FilterScan

SpecFilter == InitFilter /\ [][NextFilter]_vars

\* The tracks the request scanned: those of the filtered scan, or of the
\* fallback scan when the filtered scan raised (none when both raised).
ScannedBy(r) ==
    IF ~r.scan_failed THEN ScanPublic
    ELSE IF r.all_tracks = <<>> THEN <<>> ELSE ScanFallback

\* The candidate list holds every scanned track of a genre scored above 5,
\* at most 20 scanned tracks of other genres, and no track twice.
FilterClaim(all_tracks, scanned, preferences) ==
    LET gp == preferences.genre_preferences
        pg == {g \in DOMAIN gp : gp[g].num > 5 * gp[g].den}
    IN /\ \A i \in 1..Len(scanned) :
             scanned[i].genre \in pg => scanned[i] \in Range(all_tracks)
       /\ Cardinality({i \in 1..Len(all_tracks) : all_tracks[i].genre \notin pg}) <= 20
       /\ Range(all_tracks) \subseteq Range(scanned)
       /\ \A i \in 1..Len(all_tracks) : \A j \in 1..Len(all_tracks) :
             all_tracks[i] = all_tracks[j] => i = j

PreferredGenreExists(preferences) ==
    \E g \in DOMAIN preferences.genre_preferences :
        preferences.genre_preferences[g].num > 5 * preferences.genre_preferences[g].den

C28_NoSelfMatch ==
    \A m \in Rows(matches) : m.artist_id # m.beatmaker_id

(***************************************************************************)
(* SpecWrite: RecordSwipe requests one after the other, each cut at its    *)
(* store operations, where a put_item may raise.                           *)
(***************************************************************************)
WriteRequests ==
    [auth : {TRUE}, user : {"a1"}, trackId : {"t1", "t9"},
     action : {"right", "left", "down"}]

\* A call before its first step, with the tables as the request found them.
WriteCallStart(req) ==
    [pc |-> "start", req |-> req, beatmaker_id |-> NoVal, timestamp |-> 0,
     swipes_before |-> swipes, matches_before |-> matches]

InitWrite ==
    /\ users = UsersTable
    /\ tracks = CatalogueSeq
    /\ \E st \in ConcStores : swipes = st.swipes /\ matches = st.matches
    /\ likes = {}
    /\ clock = 0
    /\ resp = NoResponse
    /\ rec = RecIdle
    /\ calls = [p \in {1} |-> [WriteCallStart(CHOOSE req \in WriteRequests : TRUE)
                                  EXCEPT !.pc = "idle"]]

\* The next request arrives.
WriteBegin ==
    /\ calls[1].pc \in {"idle", "done"}
    /\ \E req \in WriteRequests : calls' = [calls EXCEPT ![1] = WriteCallStart(req)]
    /\ resp' = NoResponse
    /\ UNCHANGED <<users, tracks, swipes, matches, likes, clock, rec>>

\* Lines 198-205: any exception is answered with 500.
InternalError == Response(500, "Internal server error")

\* Lines 136-144: swipes_table.put_item, which writes the row or raises.
WritePutSwipe ==
    LET c == calls[1] IN
    /\ c.pc = "stamped"
    /\ \E raises \in BOOLEAN :
          IF raises
          THEN /\ swipes' = swipes
               /\ calls' = [calls EXCEPT ![1].pc = "done"]
               /\ resp' = InternalError
          ELSE /\ swipes' = SwipeWrite(swipes, c.req.user, c.req.trackId, c.req.action,
                                       c.timestamp)
               /\ IF c.req.action = "right"
                  THEN /\ calls' = [calls EXCEPT ![1].pc = "swiped"]
                       /\ resp' = resp
                  ELSE /\ calls' = [calls EXCEPT ![1].pc = "done"]
                       /\ resp' = Response(200, "Swipe recorded successfully")
    /\ UNCHANGED <<users, tracks, matches, likes, clock, rec>>

\* Lines 147-175: matches_table.put_item, which writes the row or raises.
WritePutMatch ==
    LET c == calls[1] IN
    /\ c.pc = "swiped"
    /\ \E raises \in BOOLEAN :
          IF raises
          THEN /\ matches' = matches
               /\ resp' = InternalError
          ELSE /\ matches' = MatchWrite(matches, c.req.user, c.beatmaker_id, c.req.trackId,
                                        c.req.action, c.timestamp)
               /\ resp' = Response(200, "Match created successfully")
    /\ calls' = [calls EXCEPT ![1].pc = "done"]
    /\ UNCHANGED <<users, tracks, swipes, likes, clock, rec>>

NextWrite ==
    \/ WriteBegin
    \/ ConcValidate(1)
    \/ ConcStamp(1)
    \/ WritePutSwipe
    \/ WritePutMatch
    \/ ConcTick

SpecWrite == InitWrite /\ [][NextWrite]_vars

\* C27: a RecordSwipe request that ended in an error response, the internal
\* error after a failing store write included, left the swipe table and the
\* match table as they were before the request.
C27_ErrorLeavesTables ==
    (calls[1].pc = "done" /\ resp.statusCode >= 400)
    => /\ swipes = calls[1].swipes_before
       /\ matches = calls[1].matches_before

(***************************************************************************)
(* SpecLikes: two concurrent like requests (add_like, remove_like of       *)
(* LikesTracks.py), each cut at its store operations.  The like table is   *)
(* the set of its rows, one per key like_id = user_id#track_id.            *)
(***************************************************************************)
LikeUsers == {"a1", "a2"}

LikeRequests == [op : {"add", "remove"}, user : LikeUsers, trackId : {"t1", "t9"}]

LikeCallStart(req) == [pc |-> "start", req |-> req]

LikeRowsOf(rows, track_id) == {l \in rows : l.track_id = track_id}

\* The catalogue with every likes counter equal to the track's like rows.
LikeStore(rows) ==
    [i \in 1..Len(CatalogueSeq) |->
        [CatalogueSeq[i] EXCEPT !.likes =
            Cardinality(LikeRowsOf(rows, CatalogueSeq[i].track_id))]]

InitLikes ==
    /\ users = UsersTable
    /\ \E rows \in SUBSET {LikeItem(u, "t1") : u \in LikeUsers} :
          /\ likes = rows
          /\ tracks = LikeStore(rows)
    /\ swipes = EmptyTable
    /\ matches = EmptyTable
    /\ clock = 0
    /\ resp = NoResponse
    /\ rec = RecIdle
    /\ calls \in [Procs -> {LikeCallStart(req) : req \in LikeRequests}]

LikeFrame == UNCHANGED <<users, swipes, matches, clock, rec>>

\* add_like, lines 273-280: tracks_table.get_item and the 404.
AddReadTrack(p) ==
    /\ calls[p].pc = "start" /\ calls[p].req.op = "add"
    /\ IF HasTrack(calls[p].req.trackId)
       THEN /\ calls' = [calls EXCEPT ![p].pc = "track_read"]
            /\ resp' = resp
       ELSE /\ calls' = [calls EXCEPT ![p].pc = "done"]
            /\ resp' = Response(404, "Track not found")
    /\ UNCHANGED <<tracks, likes>>
    /\ LikeFrame

\* add_like, lines 283-293: likes_table.get_item and the 409.
AddReadLike(p) ==
    /\ calls[p].pc = "track_read"
    /\ IF LikeItem(calls[p].req.user, calls[p].req.trackId) \in likes
       THEN /\ calls' = [calls EXCEPT ![p].pc = "done"]
            /\ resp' = Response(409, "Track already liked")
       ELSE /\ calls' = [calls EXCEPT ![p].pc = "checked"]
            /\ resp' = resp
    /\ UNCHANGED <<tracks, likes>>
    /\ LikeFrame

\* add_like, lines 296-305: likes_table.put_item.
AddPutLike(p) ==
    /\ calls[p].pc = "checked" /\ calls[p].req.op = "add"
    /\ likes' = likes \cup {LikeItem(calls[p].req.user, calls[p].req.trackId)}
    /\ calls' = [calls EXCEPT ![p].pc = "written"]
    /\ UNCHANGED <<tracks, resp>>
    /\ LikeFrame

\* SET likes = likes + delta on the row of track_id.
UpdateLikes(track_id, delta) ==
    [i \in 1..Len(tracks) |->
        IF tracks[i].track_id = track_id
        THEN [tracks[i] EXCEPT !.likes = tracks[i].likes + delta]
        ELSE tracks[i]]

\* add_like, lines 308-328: the atomic increment of the counter, the answer.
AddIncrement(p) ==
    /\ calls[p].pc = "written" /\ calls[p].req.op = "add"
    /\ tracks' = UpdateLikes(calls[p].req.trackId, 1)
    /\ calls' = [calls EXCEPT ![p].pc = "done"]
    /\ resp' = Response(200, "Track liked successfully")
    /\ UNCHANGED likes
    /\ LikeFrame

\* remove_like, lines 424-434: likes_table.get_item and the 404.
RemoveReadLike(p) ==
    /\ calls[p].pc = "start" /\ calls[p].req.op = "remove"
    /\ IF LikeItem(calls[p].req.user, calls[p].req.trackId) \in likes
       THEN /\ calls' = [calls EXCEPT ![p].pc = "checked"]
            /\ resp' = resp
       ELSE /\ calls' = [calls EXCEPT ![p].pc = "done"]
            /\ resp' = Response(404, "Like not found")
    /\ UNCHANGED <<tracks, likes>>
    /\ LikeFrame

\* remove_like, line 437: likes_table.delete_item.
RemoveDeleteLike(p) ==
    /\ calls[p].pc = "checked" /\ calls[p].req.op = "remove"
    /\ likes' = likes \ {LikeItem(calls[p].req.user, calls[p].req.trackId)}
    /\ calls' = [calls EXCEPT ![p].pc = "written"]
    /\ UNCHANGED <<tracks, resp>>
    /\ LikeFrame

\* remove_like, lines 440-460: the decrement under the condition likes > 0
\* (a failed condition raises, which is logged and ignored), the answer.
RemoveDecrement(p) ==
    /\ calls[p].pc = "written" /\ calls[p].req.op = "remove"
    /\ tracks' = IF HasTrack(calls[p].req.trackId)
                    /\ TrackItem(calls[p].req.trackId).likes > 0
                 THEN UpdateLikes(calls[p].req.trackId, -1)
                 ELSE tracks
    /\ calls' = [calls EXCEPT ![p].pc = "done"]
    /\ resp' = Response(200, "Like removed successfully")
    /\ UNCHANGED likes
    /\ LikeFrame

NextLikes ==
    \/ \E p \in Procs : AddReadTrack(p)
    \/ \E p \in Procs : AddReadLike(p)
    \/ \E p \in Procs : AddPutLike(p)
    \/ \E p \in Procs : AddIncrement(p)
    \/ \E p \in Procs : RemoveReadLike(p)
    \/ \E p \in Procs : RemoveDeleteLike(p)
    \/ \E p \in Procs : RemoveDecrement(p)

SpecLikes == InitLikes /\ [][NextLikes]_vars

\* C29: the likes counter of a track is never negative, and when both
\* requests have returned it equals the number of like rows of the track.
C29_CounterMatchesRows ==
    /\ \A i \in 1..Len(tracks) : tracks[i].likes >= 0
    /\ (\A p \in Procs : calls[p].pc = "done")
       => \A i \in 1..Len(tracks) :
             tracks[i].likes = Cardinality(LikeRowsOf(likes, tracks[i].track_id))
====
